---- MODULE Spec2Model ----
(***************************************************************************)
(* Model of the process-orchestration core of mcp-replit-claude-max:       *)
(*   ClaudeCodeBridge  (server/src/websocket/socketServer.ts, 457-799)     *)
(*   ProjectManager    (unnamed/part_006, 31-599)                          *)
(*   TerminalManager   (unnamed/part_006, 617-984)                         *)
(* Node runs every callback to completion, so one action is one callback   *)
(* or one stretch of an async method between two awaits.                   *)
(***************************************************************************)
EXTENDS Integers, Sequences, FiniteSets, TLC

(***************************************************************************)
(* Bounds                                                                  *)
(***************************************************************************)
\* number of agent processes the Bridge may spawn in one behaviour
MaxProcs == 2

\* number of createProject calls in one behaviour
MaxCreates == 1

\* number of segments in a relative path passed to the file operations
MaxPathLen == 2

\* number of files writeFile may add to the file system
MaxFiles == 2

\* number of terminal sessions created in one behaviour
MaxPtys == 2

\* the last reading of the clock
MaxTime == 1

\* number of killSession timers pending at once
MaxKills == 2

\* number of terminal sessions created where only the operations on one
\* session are looked at
MaxOpen == 1

\* children the Bridge spawns where only the availability gate is looked at
MaxSpawn == 1

\* sockets that connect to the WebSocketServer
MaxConns == 1

\* events the managers emit towards the WebSocketServer
MaxEvents == 1

\* events the terminal sessions emit in SpecStream
MaxChunks == 2
\* calls of performPeriodicCleanup in a behaviour of SpecReaper
MaxScans == 2

\* strings are sequences of characters; IdChars gives the n-th project id,
\* standing for `project_${Date.now()}_${uuid}` of the n-th createProject
IdChars == <<"a", "b", "c", "d">>

ProjectId(n) == <<IdChars[n]>>

\* the project ids callers pass to the Bridge and the TerminalManager
ProjectIds == {ProjectId(1), ProjectId(2)}

\* the project ids callers pass to the ProjectManager
AllIds == {ProjectId(n) : n \in 1..MaxCreates}

None == 0

\* the exit code of a process that has not called process.exit: no code yet
NoExit == -1

(***************************************************************************)
(* State                                                                   *)
(***************************************************************************)
VARIABLES
    \* ---- ClaudeCodeBridge ----
    isClaudeCodeAvailable,  \* socketServer.ts:460
    probe,                  \* the `claude --version` child of verifyClaudeCodeAccess
    procs,                  \* every child process the Bridge spawned, by pid
    activeProcesses,        \* socketServer.ts:458  projectId -> pid
    sessionStates,          \* socketServer.ts:459  projectId -> pid of session.process
    bridgeCleanup,          \* position of the async cleanup()
    \* ---- ProjectManager ----
    projects,               \* part_006:34  Map projectId -> ProjectInfo
    containers,             \* part_006:33  Map projectId -> Docker.Container
    docker,                 \* the container runtime: state of each container
    dirs,                   \* the file system: the directories that exist
    files,                  \* the file system: file path -> content
    createPc,               \* position of each createProject call
    createErr,              \* the failed step of a createProject call in its catch block
    deletePc,               \* position of the deleteProject call on each id
    events,                 \* how often each lifecycle event was emitted
    cleanupFailed,          \* part_006:139  ids logged with 'Failed to cleanup project directory'
    io,                     \* the paths the last file operation touched
    \* ---- TerminalManager ----
    ptys,                   \* every TerminalSession object created, by number
    sessions,               \* part_006:618  Map sessionId -> TerminalSession
    sessionsByProject,      \* part_006:619  Map projectId -> Set<sessionId>
    killTimers,             \* the pending 5000 ms timers of killSession (a bag)
    now,                    \* Date.now()
    \* ---- WebSocketServer ----
    socketSessions,         \* socketServer.ts:23  Map socket.id -> SocketSession
                            \* (of its fields the socketId)
    connCount,              \* sockets connected so far: the next socket.id
    rooms,                  \* socket.io: the rooms each socket has joined
    inbox,                  \* the messages each client has received, in order
    emitted,                \* events the managers have emitted so far
    \* ---- MCPReplicLaudeServer ----
    scansStarted,           \* calls of performPeriodicCleanup so far
    scansFinished,          \* returns of performPeriodicCleanup so far
    isShuttingDown,         \* part_006:1482
    shutdownTimeout,        \* the 30000 ms timer of gracefulShutdown is pending
    teardown,               \* the Promise.all of the four cleanups in gracefulShutdown
    exitCode,               \* the code process.exit was called with, NoExit before
    terminalCleanup,        \* position of the terminalManager.cleanup() call
    mcp,                    \* part_006:1493  the ReplicClaudeMaxServer behind the MCP
                            \* tools: the registries of the managers it constructs
    \* ---- all ----
    openAtDelete,           \* history: the terminal sessions of a project that
                            \* were active when deleteProject was last called
    ret                     \* the last call or callback and what it returned

bridgeVars == <<isClaudeCodeAvailable, probe, procs, activeProcesses,
                sessionStates, bridgeCleanup>>

pmVars == <<projects, containers, docker, dirs, files, createPc, createErr,
           deletePc, events, cleanupFailed, io>>

tmVars == <<ptys, sessions, sessionsByProject, killTimers, now>>

routerVars == <<socketSessions, connCount, rooms, inbox, emitted>>

serverVars == <<scansStarted, scansFinished, isShuttingDown, shutdownTimeout,
               teardown, exitCode, terminalCleanup, mcp>>

vars == <<bridgeVars, pmVars, tmVars, routerVars, serverVars, openAtDelete, ret>>

\* what the Bridge, the ProjectManager's lifecycle operations, its file
\* operations and the TerminalManager never touch
notBridge == <<pmVars, tmVars, routerVars, serverVars, openAtDelete>>

notProjects == <<bridgeVars, tmVars, routerVars, serverVars, io, openAtDelete>>

notFiles == <<bridgeVars, tmVars, routerVars, serverVars, openAtDelete>>

notTerminals == <<bridgeVars, pmVars, routerVars, serverVars, openAtDelete>>

notRouter == <<bridgeVars, pmVars, tmVars, serverVars, openAtDelete>>

notServer == <<bridgeVars, pmVars, tmVars, routerVars, openAtDelete>>

Pids == 1..Len(procs)

Ret(op, id, pid, result) ==
    [op |-> op, id |-> id, pid |-> pid, result |-> result, value |-> <<>>]

\* a call that returned a value
RetValue(op, id, value) ==
    [op |-> op, id |-> id, pid |-> None, result |-> "ok", value |-> value]

\* an async method is suspended at an await: nothing was returned
Awaiting == Ret("await", <<>>, None, "pending")

\* something happened outside the server
Outside == Ret("outside", <<>>, None, "event")

(***************************************************************************)
(* ClaudeCodeBridge                                                        *)
(***************************************************************************)
\* a freshly spawned child process
\*   kind      "session" (startInteractiveSession) or "exec" (executeCommand)
\*   state     "running" or "exited" (closed, or never started)
\*   killed    process.killed: ChildProcess.kill delivered a signal
\*   forced    the signal delivered was SIGKILL, which no process survives
\*   grace     terminateSession's 1000 ms timer is pending and the child
\*             has not exited (on an exited child the timer does nothing)
\*   timeout   executeCommand's 30000 ms timer is pending
\*   call      state of the promise returned by executeCommand
\*   lastActivity  the clock reading of session.lastActivity
NewProc(projectId, kind, timed) ==
    [projectId |-> projectId, kind |-> kind, state |-> "running",
     killed |-> FALSE, forced |-> FALSE, grace |-> FALSE, timeout |-> timed,
     call |-> IF kind = "exec" THEN "pending" ELSE "none", lastActivity |-> now]

Running(pid) == procs[pid].state = "running"

\* ChildProcess.kill('SIGTERM'): delivers the signal and sets process.killed
\* when the child is still there; returns false otherwise
Kill(ps, pid) ==
    IF ps[pid].state = "running" THEN [ps EXCEPT ![pid].killed = TRUE] ELSE ps

\* ChildProcess.kill('SIGKILL')
ForceKill(ps, pid) ==
    IF ps[pid].state = "running"
    THEN [ps EXCEPT ![pid].killed = TRUE, ![pid].forced = TRUE]
    ELSE ps

InitBridge ==
    /\ isClaudeCodeAvailable = FALSE
    /\ probe = "pending"
    /\ procs = <<>>
    /\ activeProcesses = [p \in ProjectIds |-> None]
    /\ sessionStates = [p \in ProjectIds |-> None]
    /\ bridgeCleanup = "idle"

\* verifyClaudeCodeAccess: 'close' of the probe with exit code `code`
VerifyClose(code) ==
    /\ probe = "pending"
    /\ probe' = IF code = 0 THEN "ready" ELSE "failed"
    /\ isClaudeCodeAvailable' = (code = 0)
    /\ ret' = Ret("verifyClose", <<>>, None, IF code = 0 THEN "ready" ELSE "error")
    /\ UNCHANGED <<notBridge, procs, activeProcesses, sessionStates, bridgeCleanup>>

\* verifyClaudeCodeAccess: 'error' of the probe (binary not found)
VerifyError ==
    /\ probe = "pending"
    /\ probe' = "errored"
    /\ isClaudeCodeAvailable' = FALSE
    /\ ret' = Ret("verifyError", <<>>, None, "error")
    /\ UNCHANGED <<notBridge, procs, activeProcesses, sessionStates, bridgeCleanup>>

\* the body of terminateSession on the maps and processes given
TerminateEffect(ps, ap, ss, projectId) ==
    LET process == ap[projectId]
        session == ss[projectId]
    IN  IF process # None /\ session # None
        THEN [procs |-> [ps EXCEPT ![process].grace = (ps[process].state = "running")],
              active |-> [ap EXCEPT ![projectId] = None],
              sessions |-> [ss EXCEPT ![projectId] = None],
              result |-> TRUE, pid |-> process]
        ELSE [procs |-> ps, active |-> ap, sessions |-> ss,
              result |-> FALSE, pid |-> None]

\* a terminateSession(projectId) that clears the entries of every project
TerminateSessionOfAll(projectId) ==
    /\ activeProcesses' = [p \in ProjectIds |-> None]
    /\ sessionStates' = [p \in ProjectIds |-> None]
    /\ ret' = Ret("terminateSession", projectId, activeProcesses[projectId], TRUE)
    /\ UNCHANGED <<notBridge, isClaudeCodeAvailable, probe, procs, bridgeCleanup>>

\* terminateSession(projectId)
TerminateSession(projectId) ==
    LET t == TerminateEffect(procs, activeProcesses, sessionStates, projectId)
    IN  /\ procs' = t.procs
        /\ activeProcesses' = t.active
        /\ sessionStates' = t.sessions
        /\ ret' = Ret("terminateSession", projectId, t.pid, t.result)
        /\ UNCHANGED <<notBridge, isClaudeCodeAvailable, probe, bridgeCleanup>>

\* the 1000 ms timer of terminateSession: if (!process.killed) kill('SIGTERM')
GraceTimer(pid) ==
    /\ procs[pid].grace
    /\ procs' = [(IF procs[pid].killed THEN procs ELSE Kill(procs, pid))
                    EXCEPT ![pid].grace = FALSE]
    /\ ret' = Ret("graceTimer", procs[pid].projectId, pid, ~procs[pid].killed)
    /\ UNCHANGED <<notBridge, isClaudeCodeAvailable, probe, activeProcesses,
                   sessionStates, bridgeCleanup>>

\* startInteractiveSession(projectId, ...), the unavailable branch
StartInteractiveSessionUnavailable(projectId) ==
    /\ ~isClaudeCodeAvailable
    /\ ret' = Ret("startInteractiveSession", projectId, None, "AgentUnavailable")
    /\ UNCHANGED <<notBridge, bridgeVars>>

\* startInteractiveSession(projectId, ...): terminate the registered
\* session, spawn, register in both maps, send the context message
StartInteractiveSession(projectId) ==
    /\ isClaudeCodeAvailable
    /\ Len(procs) < MaxProcs
    /\ LET t == TerminateEffect(procs, activeProcesses, sessionStates, projectId)
           pid == Len(procs) + 1
       IN  /\ procs' = Append(t.procs, NewProc(projectId, "session", FALSE))
           /\ activeProcesses' = [t.active EXCEPT ![projectId] = pid]
           /\ sessionStates' = [t.sessions EXCEPT ![projectId] = pid]
           /\ ret' = Ret("startInteractiveSession", projectId, pid, "ok")
    /\ UNCHANGED <<notBridge, isClaudeCodeAvailable, probe, bridgeCleanup>>

\* sendToSession(projectId, input): writes to activeProcesses.get(projectId)
\* and sets session.lastActivity
SendToSession(projectId) ==
    LET process == activeProcesses[projectId]
        session == sessionStates[projectId]
        ok == process # None /\ session # None
    IN  /\ procs' = IF ok THEN [procs EXCEPT ![session].lastActivity = now] ELSE procs
        /\ ret' = Ret("sendToSession", projectId, IF ok THEN process ELSE None, ok)
        /\ UNCHANGED <<notBridge, isClaudeCodeAvailable, probe, activeProcesses,
                       sessionStates, bridgeCleanup>>

\* executeCommand(projectId, command, workingDir, interactive), unavailable
ExecuteCommandUnavailable(projectId) ==
    /\ ~isClaudeCodeAvailable
    /\ ret' = Ret("executeCommand", projectId, None, "AgentUnavailable")
    /\ UNCHANGED <<notBridge, bridgeVars>>

\* an executeCommand that spawns without looking at isClaudeCodeAvailable
ExecuteCommandUngated(projectId, interactive) ==
    /\ Len(procs) < MaxProcs
    /\ LET pid == Len(procs) + 1
       IN  /\ procs' = Append(procs, NewProc(projectId, "exec", ~interactive))
           /\ activeProcesses' = [activeProcesses EXCEPT ![projectId] = pid]
           /\ ret' = Ret("executeCommand", projectId, pid, "pending")
    /\ UNCHANGED <<notBridge, isClaudeCodeAvailable, probe, sessionStates, bridgeCleanup>>

\* executeCommand: spawn, arm the timeout unless interactive, register the
\* child under projectId in activeProcesses
ExecuteCommand(projectId, interactive) ==
    /\ isClaudeCodeAvailable
    /\ Len(procs) < MaxProcs
    /\ LET pid == Len(procs) + 1
       IN  /\ procs' = Append(procs, NewProc(projectId, "exec", ~interactive))
           /\ activeProcesses' = [activeProcesses EXCEPT ![projectId] = pid]
           /\ ret' = Ret("executeCommand", projectId, pid, "pending")
    /\ UNCHANGED <<notBridge, isClaudeCodeAvailable, probe, sessionStates, bridgeCleanup>>

\* the 30000 ms timer of executeCommand: kill('SIGTERM') and reject
ExecTimeout(pid) ==
    /\ procs[pid].timeout
    /\ procs' = [Kill(procs, pid) EXCEPT
                    ![pid].timeout = FALSE,
                    ![pid].call = IF @ = "pending" THEN "timeout" ELSE @]
    /\ ret' = Ret("execTimeout", procs[pid].projectId, pid, "Timeout")
    /\ UNCHANGED <<notBridge, isClaudeCodeAvailable, probe, activeProcesses,
                   sessionStates, bridgeCleanup>>

\* what the 'close' and 'error' handlers of a child do to the registries:
\* both delete the entry of the child's projectId, whoever holds it
HandlerActive(pid) == [activeProcesses EXCEPT ![procs[pid].projectId] = None]

HandlerSessions(pid) ==
    IF procs[pid].kind = "session"
    THEN [sessionStates EXCEPT ![procs[pid].projectId] = None]
    ELSE sessionStates

\* 'close' of a child with exit code `code`
ProcClose(pid, code) ==
    /\ Running(pid)
    /\ procs' = [procs EXCEPT
                    ![pid].state = "exited",
                    ![pid].timeout = FALSE,
                    ![pid].grace = FALSE,
                    ![pid].call = IF @ = "pending"
                                  THEN (IF code = 0 THEN "resolved" ELSE "AgentError")
                                  ELSE @]
    /\ activeProcesses' = HandlerActive(pid)
    /\ sessionStates' = HandlerSessions(pid)
    /\ ret' = Ret("close", procs[pid].projectId, pid, code)
    /\ UNCHANGED <<notBridge, isClaudeCodeAvailable, probe, bridgeCleanup>>

\* 'error' of a child: the spawn failed, there is no process
ProcError(pid) ==
    /\ Running(pid)
    /\ ~procs[pid].killed
    /\ ~procs[pid].grace
    /\ procs' = [procs EXCEPT
                    ![pid].state = "exited",
                    ![pid].timeout = FALSE,
                    ![pid].call = IF @ = "pending" THEN "error" ELSE @]
    /\ activeProcesses' = HandlerActive(pid)
    /\ sessionStates' = HandlerSessions(pid)
    /\ ret' = Ret("error", procs[pid].projectId, pid, "error")
    /\ UNCHANGED <<notBridge, isClaudeCodeAvailable, probe, bridgeCleanup>>

RECURSIVE TerminateAll(_, _, _, _)
\* cleanup(): for (const projectId of sessions) this.terminateSession(projectId)
TerminateAll(ps, ap, ss, keys) ==
    IF keys = {} THEN [procs |-> ps, active |-> ap, sessions |-> ss]
    ELSE LET k == CHOOSE x \in keys : TRUE
             t == TerminateEffect(ps, ap, ss, k)
         IN  TerminateAll(t.procs, t.active, t.sessions, keys \ {k})

\* cleanup(), up to the 2000 ms wait
BridgeCleanupStart ==
    /\ bridgeCleanup = "idle"
    /\ LET keys == {p \in ProjectIds : activeProcesses[p] # None}
           t == TerminateAll(procs, activeProcesses, sessionStates, keys)
       IN  /\ procs' = t.procs
           /\ activeProcesses' = t.active
           /\ sessionStates' = t.sessions
    /\ bridgeCleanup' = "waiting"
    /\ ret' = Ret("cleanup", <<>>, None, "waiting")
    /\ UNCHANGED <<notBridge, isClaudeCodeAvailable, probe>>

RECURSIVE KillAll(_, _)
\* cleanup(): SIGKILL every process still in activeProcesses
KillAll(ps, pids) ==
    IF pids = {} THEN ps
    ELSE LET k == CHOOSE x \in pids : TRUE
         IN  KillAll(IF ps[k].killed THEN ps ELSE ForceKill(ps, k), pids \ {k})

\* cleanup(), after the wait: force kill, clear both maps
BridgeCleanupFinish ==
    /\ bridgeCleanup = "waiting"
    /\ procs' = KillAll(procs, {activeProcesses[p] : p \in ProjectIds} \ {None})
    /\ activeProcesses' = [p \in ProjectIds |-> None]
    /\ sessionStates' = [p \in ProjectIds |-> None]
    /\ bridgeCleanup' = "idle"
    /\ ret' = Ret("cleanup", <<>>, None, "done")
    /\ UNCHANGED <<notBridge, isClaudeCodeAvailable, probe>>

NextBridge ==
    \/ \E code \in {0, 1} : VerifyClose(code)
    \/ VerifyError
    \/ \E p \in ProjectIds : TerminateSession(p)
    \/ \E pid \in Pids : GraceTimer(pid)
    \/ \E p \in ProjectIds : StartInteractiveSessionUnavailable(p)
    \/ \E p \in ProjectIds : StartInteractiveSession(p)
    \/ \E p \in ProjectIds : SendToSession(p)
    \/ \E p \in ProjectIds : ExecuteCommandUnavailable(p)
    \/ \E p \in ProjectIds, i \in BOOLEAN : ExecuteCommand(p, i)
    \/ \E pid \in Pids : ExecTimeout(pid)
    \/ \E pid \in Pids, code \in {0, 1} : ProcClose(pid, code)
    \/ \E pid \in Pids : ProcError(pid)
    \/ BridgeCleanupStart
    \/ BridgeCleanupFinish

\* the Bridge with at most MaxSpawn children spawned in all
NextGate ==
    \/ \E code \in {0, 1} : VerifyClose(code)
    \/ VerifyError
    \/ \E p \in ProjectIds : TerminateSession(p)
    \/ \E pid \in Pids : GraceTimer(pid)
    \/ \E p \in ProjectIds : StartInteractiveSessionUnavailable(p)
    \/ \E p \in ProjectIds : Len(procs) < MaxSpawn /\ StartInteractiveSession(p)
    \/ \E p \in ProjectIds : SendToSession(p)
    \/ \E p \in ProjectIds : ExecuteCommandUnavailable(p)
    \/ \E p \in ProjectIds, i \in BOOLEAN : Len(procs) < MaxSpawn /\ ExecuteCommand(p, i)
    \/ \E pid \in Pids : ExecTimeout(pid)
    \/ \E pid \in Pids, code \in {0, 1} : ProcClose(pid, code)
    \/ \E pid \in Pids : ProcError(pid)
    \/ BridgeCleanupStart
    \/ BridgeCleanupFinish

(***************************************************************************)
(* Paths and the file system                                               *)
(***************************************************************************)
\* A path is the sequence of its segments, a segment is a string.
DotDot == <<".", ".">>

Dot == <<".">>

\* this.projectsDir = path.resolve('./projects')
ProjectsDir == << <<"w">> >>

\* '.repliclaude-config.json'
ConfigName == <<".", "j">>

\* 'README.md', the file of the template 'empty'
ReadmeName == <<"R">>

\* the bytes of a file are kept as the sequence of Unicode scalar values they
\* encode; a text of ASCII characters is kept as one unit
Ascii(text) == <<text>>

RECURSIVE Utf8Encode(_)
\* fs.writeFile(path, string): the UTF-16 code units of the string are encoded
\* as UTF-8. "H" is a high surrogate, "L" a low surrogate, any other unit a
\* character of the basic plane; a pair H L is one scalar value, a surrogate
\* without its partner is written as U+FFFD
Utf8Encode(units) ==
    IF units = <<>> THEN <<>>
    ELSE IF units[1] = "H" /\ Len(units) >= 2 /\ units[2] = "L"
         THEN <<"HL">> \o Utf8Encode(Tail(Tail(units)))
         ELSE IF units[1] \in {"H", "L"}
              THEN <<"FFFD">> \o Utf8Encode(Tail(units))
              ELSE <<units[1]>> \o Utf8Encode(Tail(units))

RECURSIVE Utf8Decode(_)
\* fs.readFile(path, 'utf-8'): the string of the scalar values
Utf8Decode(scalars) ==
    IF scalars = <<>> THEN <<>>
    ELSE (IF scalars[1] = "HL" THEN <<"H", "L">> ELSE <<scalars[1]>>)
            \o Utf8Decode(Tail(scalars))

RECURSIVE NormalizeFrom(_, _)
\* path.normalize on an absolute path: '.' is dropped, '..' removes the
\* segment before it and is dropped at the root
NormalizeFrom(acc, segs) ==
    IF segs = <<>> THEN acc
    ELSE LET h == Head(segs)
         IN  IF h = Dot THEN NormalizeFrom(acc, Tail(segs))
             ELSE IF h = DotDot
                  THEN NormalizeFrom(IF acc = <<>> THEN acc
                                     ELSE SubSeq(acc, 1, Len(acc) - 1), Tail(segs))
                  ELSE NormalizeFrom(Append(acc, h), Tail(segs))

\* path.join(base, rel) == path.normalize(base + '/' + rel)
PathJoin(base, rel) == NormalizeFrom(<<>>, base \o rel)

\* path.dirname
Dirname(path) == IF path = <<>> THEN path ELSE SubSeq(path, 1, Len(path) - 1)

RECURSIVE Str(_)
\* the string of an absolute path: '/' before every segment
Str(path) ==
    IF path = <<>> THEN <<>>
    ELSE Str(SubSeq(path, 1, Len(path) - 1)) \o <<"/">> \o path[Len(path)]

\* String.prototype.startsWith
StartsWith(s, prefix) ==
    /\ Len(prefix) <= Len(s)
    /\ SubSeq(s, 1, Len(prefix)) = prefix

\* path lies in the directory tree rooted at root (root itself included)
Inside(root, path) ==
    /\ Len(root) <= Len(path)
    /\ SubSeq(path, 1, Len(root)) = root

\* path.join(this.projectsDir, projectId)
ProjectPath(id) == Append(ProjectsDir, id)

Prefixes(path) == {SubSeq(path, 1, n) : n \in 0..Len(path)}

\* fs.mkdir(path, {recursive: true}) is possible: no file is in the way
CanMkdir(path) == Prefixes(path) \cap DOMAIN files = {}

MkdirP(ds, path) == ds \cup Prefixes(path)

\* fs.writeFile(path, ...) is possible: the parent exists, path is no directory
CanWrite(path) == Dirname(path) \in dirs /\ path \notin dirs /\ path # <<>>

\* Map.set and Map.delete, and the same for the files of the file system
MapSet(m, k, v) == [x \in DOMAIN m \cup {k} |-> IF x = k THEN v ELSE m[x]]

MapDelete(m, k) == [x \in DOMAIN m \ {k} |-> m[x]]

\* fs.rm(path, {recursive: true, force: true}): the tree is removed, a
\* missing path is no error
RmDirs(ds, path) == {d \in ds : ~Inside(path, d)}

RmFiles(fs, path) == [f \in {x \in DOMAIN fs : ~Inside(path, x)} |-> fs[f]]

(***************************************************************************)
(* ProjectManager                                                          *)
(***************************************************************************)
EmptyMap == [x \in {} |-> None]

InitProjects ==
    /\ projects = EmptyMap
    /\ containers = EmptyMap
    /\ docker = [id \in AllIds |-> "absent"]
    /\ dirs = Prefixes(ProjectsDir)
    /\ files = EmptyMap
    /\ createPc = [id \in AllIds |-> "idle"]
    /\ createErr = [id \in AllIds |-> "none"]
    /\ deletePc = [id \in AllIds |-> "idle"]
    /\ events = [e \in {"project-created", "project-deleted"} \X AllIds |-> 0]
    /\ cleanupFailed = {}
    /\ io = {}

\* the ProjectInfo object, of its fields the status, the containerId and
\* the clock reading of lastAccessed
ProjectInfo(status, containerId, lastAccessed) ==
    [status |-> status, containerId |-> containerId, lastAccessed |-> lastAccessed]

\* this.emit(event, projectId)
Emit(e) == [events EXCEPT ![e] = @ + 1]

\* the file saveProjectConfig(projectInfo) writes
ConfigPath(id) == Append(ProjectPath(id), ConfigName)

\* JSON.stringify(projectInfo, null, 2): the text of the config file, kept as
\* one unit that holds the fields written; a Date is written as its ISO
\* string, which keeps the millisecond
ConfigText(info) == Ascii(info)

\* JSON.parse(configData), the dates rebuilt with new Date(...)
ParseConfig(content) == content[1]

\* a step of createProject failed: control goes to the catch block
CreateFail(id, step) ==
    /\ createPc' = [createPc EXCEPT ![id] = "rollback"]
    /\ createErr' = [createErr EXCEPT ![id] = step]
    /\ ret' = Awaiting

CreateGoto(id, pc) ==
    /\ createPc' = [createPc EXCEPT ![id] = pc]
    /\ ret' = Awaiting
    /\ UNCHANGED createErr

\* createProject(name, template): the id is fresh; fs.mkdir is awaited
CreateProject(id) ==
    /\ createPc[id] = "idle"
    /\ \A n \in 1..MaxCreates :
          (ProjectId(n) = id) => \A m \in 1..(n - 1) : createPc[ProjectId(m)] # "idle"
    /\ CreateGoto(id, "mkdir")
    /\ UNCHANGED <<notProjects, projects, containers, docker, dirs, files, deletePc, events, cleanupFailed>>

\* await fs.mkdir(projectPath, {recursive: true})
CreateMkdir(id, ok) ==
    /\ createPc[id] = "mkdir"
    /\ IF ok /\ CanMkdir(ProjectPath(id))
       THEN /\ dirs' = MkdirP(dirs, ProjectPath(id))
            /\ CreateGoto(id, "template")
       ELSE /\ CreateFail(id, "mkdir")
            /\ UNCHANGED dirs
    /\ UNCHANGED <<notProjects, projects, containers, docker, files, deletePc, events, cleanupFailed>>

\* await this.initializeTemplate(projectPath, template), template 'empty'
CreateTemplate(id, ok) ==
    /\ createPc[id] = "template"
    /\ LET readme == Append(ProjectPath(id), ReadmeName)
       IN  IF ok /\ CanWrite(readme)
           THEN /\ files' = MapSet(files, readme, Ascii("readme"))
                /\ CreateGoto(id, "save1")
           ELSE /\ CreateFail(id, "template")
                /\ UNCHANGED files
    /\ UNCHANGED <<notProjects, projects, containers, docker, dirs, deletePc, events, cleanupFailed>>

\* await this.saveProjectConfig(projectInfo) with status 'creating'
CreateSave1(id, ok) ==
    /\ createPc[id] = "save1"
    /\ IF ok /\ CanWrite(ConfigPath(id))
       THEN /\ files' = MapSet(files, ConfigPath(id), ConfigText(ProjectInfo("creating", None, now)))
            /\ CreateGoto(id, "createContainer")
       ELSE /\ CreateFail(id, "save1")
            /\ UNCHANGED files
    /\ UNCHANGED <<notProjects, projects, containers, docker, dirs, deletePc, events, cleanupFailed>>

\* await this.createContainer(projectId, projectPath)
CreateContainer(id, ok) ==
    /\ createPc[id] = "createContainer"
    /\ IF ok /\ docker[id] = "absent"
       THEN /\ docker' = [docker EXCEPT ![id] = "created"]
            /\ CreateGoto(id, "start")
       ELSE /\ CreateFail(id, "createContainer")
            /\ UNCHANGED docker
    /\ UNCHANGED <<notProjects, projects, containers, dirs, files, deletePc, events, cleanupFailed>>

\* a container.start() after which the project is registered as 'creating'
CreateStartCreating(id, ok) ==
    /\ createPc[id] = "start"
    /\ IF ok /\ docker[id] = "created"
       THEN /\ docker' = [docker EXCEPT ![id] = "running"]
            /\ containers' = MapSet(containers, id, id)
            /\ projects' = MapSet(projects, id, ProjectInfo("creating", id, now))
            /\ CreateGoto(id, "save2")
       ELSE /\ CreateFail(id, "start")
            /\ UNCHANGED <<docker, containers, projects>>
    /\ UNCHANGED <<notProjects, dirs, files, deletePc, events, cleanupFailed>>

\* await container.start(); then containerId and status 'active' are set and
\* the container and the project are registered
CreateStart(id, ok) ==
    /\ createPc[id] = "start"
    /\ IF ok /\ docker[id] = "created"
       THEN /\ docker' = [docker EXCEPT ![id] = "running"]
            /\ containers' = MapSet(containers, id, id)
            /\ \E t \in 0..now :
                  projects' = MapSet(projects, id, ProjectInfo("active", id, t))
            /\ CreateGoto(id, "save2")
       ELSE /\ CreateFail(id, "start")
            /\ UNCHANGED <<docker, containers, projects>>
    /\ UNCHANGED <<notProjects, dirs, files, deletePc, events, cleanupFailed>>

\* await this.saveProjectConfig(projectInfo) with status 'active'; then
\* emit('project-created') and return projectId
CreateSave2(id, ok) ==
    /\ createPc[id] = "save2"
    /\ IF ok /\ CanWrite(ConfigPath(id))
       THEN /\ files' = MapSet(files, ConfigPath(id), ConfigText(projects[id]))
            /\ events' = Emit(<<"project-created", id>>)
            /\ UNCHANGED cleanupFailed
            /\ createPc' = [createPc EXCEPT ![id] = "done"]
            /\ ret' = Ret("createProject", id, None, "ok")
            /\ UNCHANGED createErr
       ELSE /\ CreateFail(id, "save2")
            /\ UNCHANGED <<files, events, cleanupFailed>>
    /\ UNCHANGED <<notProjects, projects, containers, docker, dirs, deletePc>>

\* the error createProject throws when `step` failed
Thrown(step) ==
    CASE step = "mkdir" -> "failed:mkdir"
      [] step = "template" -> "TemplateError"
      [] step = "save1" -> "failed:save1"
      [] step = "createContainer" -> "ProvisioningError:create"
      [] step = "start" -> "ProvisioningError:start"
      [] step = "save2" -> "failed:save2"
      [] step = "emit" -> "failed:listener"

\* the files a failed fs.rm(path, { recursive: true }) may leave behind: the
\* directories stay and any part of the files below them
RmFailed(fs, path) ==
    {[f \in {x \in DOMAIN fs : ~Inside(path, x)} \cup keep |-> fs[f]] :
        keep \in SUBSET {x \in DOMAIN fs : Inside(path, x)}}

\* a catch block without `fs.rm(projectPath, { recursive: true, force: true })`
CreateRollbackKeepsDirectory(id, ok) ==
    /\ createPc[id] = "rollback"
    /\ cleanupFailed' = IF ok THEN cleanupFailed ELSE cleanupFailed \cup {id}
    /\ createPc' = [createPc EXCEPT ![id] = "failed"]
    /\ createErr' = [createErr EXCEPT ![id] = "none"]
    /\ ret' = Ret("createProject", id, None, Thrown(createErr[id]))
    /\ UNCHANGED <<notProjects, projects, containers, docker, dirs, files,
                   deletePc, events>>

\* the catch block of createProject: fs.rm(projectPath), whose failure is
\* logged and dropped, and throw error
CreateRollback(id, ok) ==
    /\ createPc[id] = "rollback"
    /\ IF ok
       THEN /\ dirs' = RmDirs(dirs, ProjectPath(id))
            /\ files' = RmFiles(files, ProjectPath(id))
            /\ UNCHANGED cleanupFailed
       ELSE /\ files' \in RmFailed(files, ProjectPath(id))
            /\ cleanupFailed' = cleanupFailed \cup {id}
            /\ UNCHANGED dirs
    /\ createPc' = [createPc EXCEPT ![id] = "failed"]
    /\ createErr' = [createErr EXCEPT ![id] = "none"]
    /\ ret' = Ret("createProject", id, None, Thrown(createErr[id]))
    /\ UNCHANGED <<notProjects, projects, containers, docker, deletePc, events>>

\* the container of a project stops on its own or is stopped from outside
\* the server (the runtime is shared with the host)
ContainerExit(id) ==
    /\ docker[id] = "running"
    /\ docker' = [docker EXCEPT ![id] = "exited"]
    /\ ret' = Outside
    /\ UNCHANGED <<notProjects, projects, containers, dirs, files, createPc, createErr,
                   deletePc, events, cleanupFailed>>

\* HostConfig.AutoRemove: the runtime removes a container that has exited
AutoRemove(id) ==
    /\ docker[id] = "exited"
    /\ docker' = [docker EXCEPT ![id] = "absent"]
    /\ ret' = Outside
    /\ UNCHANGED <<notProjects, projects, containers, dirs, files, createPc, createErr,
                   deletePc, events, cleanupFailed>>

\* getProjectInfo(projectId): NotFound, or set lastAccessed, save the
\* config and return the ProjectInfo
GetProjectInfo(id, ok) ==
    /\ IF id \notin DOMAIN projects
       THEN /\ ret' = Ret("getProjectInfo", id, None, "NotFound")
            /\ UNCHANGED <<projects, files>>
       ELSE /\ projects' = [projects EXCEPT ![id].lastAccessed = now]
            /\ IF ok /\ CanWrite(ConfigPath(id))
               THEN /\ files' = MapSet(files, ConfigPath(id), ConfigText(projects'[id]))
                    /\ ret' = [Ret("getProjectInfo", id, None, projects[id].status)
                                  EXCEPT !.value = projects'[id]]
               ELSE /\ ret' = Ret("getProjectInfo", id, None, "failed")
                    /\ UNCHANGED files
    /\ UNCHANGED <<notProjects, containers, docker, dirs, createPc, createErr,
                   deletePc, events, cleanupFailed>>

\* executeInContainer(projectId, command): throws when no container is
\* registered; container.exec and exec.start throw when the runtime refuses;
\* otherwise resolves with the output when the stream ends. `code` is the
\* exit code of the command, which no line reads; the value returned names
\* the calls made to the runtime
ExecuteInContainer(id, code, ok) ==
    /\ IF id \notin DOMAIN containers
       THEN ret' = [Ret("executeInContainer", id, None, "NotFound")
                       EXCEPT !.value = [calls |-> <<>>, code |-> None]]
       ELSE IF ok /\ docker[id] = "running"
            THEN ret' = [Ret("executeInContainer", id, None, "ok")
                            EXCEPT !.value = [calls |-> <<"exec", "start">>,
                                              code |-> code]]
            ELSE ret' = [Ret("executeInContainer", id, None, "failed")
                            EXCEPT !.value = [calls |-> <<"exec">>, code |-> None]]
    /\ UNCHANGED <<notFiles, pmVars>>

\* the ids in the order of their creation, the order of the Map
SortIds(ids) ==
    LET number(id) == CHOOSE n \in 1..MaxCreates : ProjectId(n) = id
    IN  [i \in 1..Cardinality(ids) |->
            CHOOSE id \in ids :
                Cardinality({x \in ids : number(x) < number(id)}) = i - 1]

\* listProjects(): Array.from(this.projects.values())
ListProjects ==
    /\ ret' = RetValue("listProjects", <<>>,
                       [i \in 1..Cardinality(DOMAIN projects) |->
                           projects[SortIds(DOMAIN projects)[i]]])
    /\ UNCHANGED <<notFiles, pmVars>>

\* deleteProject(projectId) on an id that is not registered: throws
DeleteProjectNotFound(id) ==
    /\ deletePc[id] = "idle"
    /\ id \notin DOMAIN projects
    /\ ret' = Ret("deleteProject", id, None, "NotFound")
    /\ UNCHANGED <<notFiles, pmVars>>

\* the terminal sessions of projectId that are registered and active
OpenTerminals(projectId) ==
    {s \in DOMAIN sessions :
        ptys[sessions[s]].projectId = projectId /\ ptys[sessions[s]].isActive}

\* deleteProject(projectId): container.stop() is awaited when a container is
\* registered, fs.rm otherwise
DeleteProject(id) ==
    /\ deletePc[id] = "idle"
    /\ id \in DOMAIN projects
    /\ deletePc' = [deletePc EXCEPT ![id] = IF id \in DOMAIN containers
                                            THEN "stop" ELSE "rm"]
    /\ openAtDelete' = [openAtDelete EXCEPT ![id] = OpenTerminals(id)]
    /\ ret' = Awaiting
    /\ UNCHANGED <<bridgeVars, tmVars, routerVars, serverVars, io, projects, containers,
                   docker, dirs, files, createPc, createErr, events,
                   cleanupFailed>>

\* a container call of deleteProject failed: the catch block logs and throws
DeleteFail(id, stage) ==
    /\ deletePc' = [deletePc EXCEPT ![id] = "idle"]
    /\ ret' = Ret("deleteProject", id, None,
                  IF stage = "stop"
                  THEN (IF docker[id] = "absent" THEN "stop:NoSuchContainer"
                                                 ELSE "stop:Failed")
                  ELSE (IF docker[id] = "absent" THEN "remove:NoSuchContainer"
                                                 ELSE "remove:Failed"))
    /\ UNCHANGED <<projects, containers, docker, dirs, files, events, cleanupFailed>>

\* await container.stop()
DeleteStop(id, ok) ==
    /\ deletePc[id] = "stop"
    /\ IF ok /\ docker[id] = "running"
       THEN /\ docker' = [docker EXCEPT ![id] = "exited"]
            /\ deletePc' = [deletePc EXCEPT ![id] = "remove"]
            /\ ret' = Awaiting
            /\ UNCHANGED <<projects, containers, dirs, files, events, cleanupFailed>>
       ELSE DeleteFail(id, "stop")
    /\ UNCHANGED <<notProjects, createPc, createErr>>

\* await container.remove(); this.containers.delete(projectId)
DeleteRemove(id, ok) ==
    /\ deletePc[id] = "remove"
    /\ IF ok /\ docker[id] \in {"exited", "created"}
       THEN /\ docker' = [docker EXCEPT ![id] = "absent"]
            /\ containers' = MapDelete(containers, id)
            /\ deletePc' = [deletePc EXCEPT ![id] = "rm"]
            /\ ret' = Awaiting
            /\ UNCHANGED <<projects, dirs, files, events, cleanupFailed>>
       ELSE DeleteFail(id, "remove")
    /\ UNCHANGED <<notProjects, createPc, createErr>>

\* await fs.rm(project.path); this.projects.delete(projectId);
\* emit('project-deleted')
DeleteRm(id, ok) ==
    /\ deletePc[id] = "rm"
    /\ IF ok
       THEN /\ dirs' = RmDirs(dirs, ProjectPath(id))
            /\ files' = RmFiles(files, ProjectPath(id))
            /\ projects' = MapDelete(projects, id)
            /\ events' = Emit(<<"project-deleted", id>>)
            /\ deletePc' = [deletePc EXCEPT ![id] = "idle"]
            /\ ret' = Ret("deleteProject", id, None, "ok")
            /\ UNCHANGED <<containers, docker, cleanupFailed>>
       ELSE /\ files' \in RmFailed(files, ProjectPath(id))
            /\ deletePc' = [deletePc EXCEPT ![id] = "idle"]
            /\ ret' = Ret("deleteProject", id, None, "rm:Failed")
            /\ UNCHANGED <<projects, containers, docker, dirs, events, cleanupFailed>>
    /\ UNCHANGED <<notProjects, createPc, createErr>>

NextProjects ==
    \/ \E id \in AllIds : CreateProject(id)
    \/ \E id \in AllIds, ok \in BOOLEAN : CreateMkdir(id, ok)
    \/ \E id \in AllIds, ok \in BOOLEAN : CreateTemplate(id, ok)
    \/ \E id \in AllIds, ok \in BOOLEAN : CreateSave1(id, ok)
    \/ \E id \in AllIds, ok \in BOOLEAN : CreateContainer(id, ok)
    \/ \E id \in AllIds, ok \in BOOLEAN : CreateStart(id, ok)
    \/ \E id \in AllIds, ok \in BOOLEAN : CreateSave2(id, ok)
    \/ \E id \in AllIds, ok \in BOOLEAN : CreateRollback(id, ok)
    \/ \E id \in AllIds : ContainerExit(id)
    \/ \E id \in AllIds : AutoRemove(id)
    \/ \E id \in AllIds, ok \in BOOLEAN : GetProjectInfo(id, ok)
    \/ ListProjects
    \/ \E id \in AllIds : DeleteProjectNotFound(id)
    \/ \E id \in AllIds : DeleteProject(id)
    \/ \E id \in AllIds, ok \in BOOLEAN : DeleteStop(id, ok)
    \/ \E id \in AllIds, ok \in BOOLEAN : DeleteRemove(id, ok)
    \/ \E id \in AllIds, ok \in BOOLEAN : DeleteRm(id, ok)

\* createProject and deleteProject alone: POST /projects, DELETE /projects/:id
NextCreateDelete ==
    \/ \E id \in AllIds : CreateProject(id)
    \/ \E id \in AllIds, ok \in BOOLEAN : CreateMkdir(id, ok)
    \/ \E id \in AllIds, ok \in BOOLEAN : CreateTemplate(id, ok)
    \/ \E id \in AllIds, ok \in BOOLEAN : CreateSave1(id, ok)
    \/ \E id \in AllIds, ok \in BOOLEAN : CreateContainer(id, ok)
    \/ \E id \in AllIds, ok \in BOOLEAN : CreateStart(id, ok)
    \/ \E id \in AllIds, ok \in BOOLEAN : CreateSave2(id, ok)
    \/ \E id \in AllIds, ok \in BOOLEAN : CreateRollback(id, ok)
    \/ \E id \in AllIds : DeleteProjectNotFound(id)
    \/ \E id \in AllIds : DeleteProject(id)
    \/ \E id \in AllIds, ok \in BOOLEAN : DeleteStop(id, ok)
    \/ \E id \in AllIds, ok \in BOOLEAN : DeleteRemove(id, ok)
    \/ \E id \in AllIds, ok \in BOOLEAN : DeleteRm(id, ok)

(***************************************************************************)
(* ProjectManager: file access                                             *)
(***************************************************************************)
\* the relative paths callers pass: up to MaxPathLen segments
RelSegments == {DotDot, <<"f">>, <<"a", "b">>}

RelPaths == UNION {[1..n -> RelSegments] : n \in 0..MaxPathLen}

\* the strings callers write, as UTF-16 code units: plain, a surrogate pair,
\* and a surrogate that has no partner
Contents == {<<"x">>, <<"H", "L">>, <<"H">>}

\* the ids callers pass to the file operations: registered ones and others
FileIds == AllIds \cup ProjectIds

\* the security check of readFile, writeFile and listFiles:
\* fullPath.startsWith(projectPath)
PathAllowed(projectPath, fullPath) == StartsWith(Str(fullPath), Str(projectPath))

\* readFile(projectId, filePath)
ReadFile(id, rel) ==
    LET projectPath == ProjectPath(id)
        fullPath == PathJoin(projectPath, rel)
        result(r, content) == [Ret("readFile", id, None, r)
                                  EXCEPT !.value = [path |-> rel, content |-> content]]
    IN  /\ IF id \notin DOMAIN projects
           THEN ret' = result("NotFound", None) /\ io' = {}
           ELSE IF ~PathAllowed(projectPath, fullPath)
           THEN ret' = result("AccessDenied", None) /\ io' = {}
           ELSE /\ io' = {fullPath}
                /\ ret' = IF fullPath \in DOMAIN files
                          THEN result("ok", Utf8Decode(files[fullPath]))
                          ELSE result("failed", None)
        /\ UNCHANGED <<notFiles, projects, containers, docker, dirs, files,
                       createPc, createErr, deletePc, events, cleanupFailed>>

\* writeFile(projectId, filePath, content): fs.mkdir of the parent, then
\* fs.writeFile
WriteFile(id, rel, content, ok) ==
    LET projectPath == ProjectPath(id)
        fullPath == PathJoin(projectPath, rel)
        dir == Dirname(fullPath)
        made == MkdirP(dirs, dir)
    IN  /\ IF id \notin DOMAIN projects
           THEN /\ ret' = Ret("writeFile", id, None, "NotFound")
                /\ io' = {}
                /\ UNCHANGED <<dirs, files>>
           ELSE IF ~PathAllowed(projectPath, fullPath)
           THEN /\ ret' = Ret("writeFile", id, None, "AccessDenied")
                /\ io' = {}
                /\ UNCHANGED <<dirs, files>>
           ELSE IF ~ok \/ ~CanMkdir(dir)
           THEN /\ ret' = Ret("writeFile", id, None, "failed")
                /\ io' = {dir} \ dirs
                /\ UNCHANGED <<dirs, files>>
           ELSE /\ dirs' = made
                /\ io' = (made \ dirs) \cup {fullPath}
                /\ IF fullPath \notin made /\ fullPath # <<>>
                      /\ (fullPath \in DOMAIN files
                            \/ Cardinality(DOMAIN files) < MaxFiles + 2 * MaxCreates)
                   THEN /\ files' = MapSet(files, fullPath, Utf8Encode(content))
                        /\ ret' = [Ret("writeFile", id, None, "ok")
                                      EXCEPT !.value = [path |-> rel, content |-> content]]
                   ELSE /\ ret' = Ret("writeFile", id, None, "failed")
                        /\ UNCHANGED files
        /\ UNCHANGED <<notFiles, projects, containers, docker, createPc,
                       createErr, deletePc, events, cleanupFailed>>

\* the rank of a character in String.prototype.localeCompare
CharRank(c) ==
    CASE c = "." -> 0 [] c = "a" -> 1 [] c = "b" -> 2 [] c = "c" -> 3
      [] c = "d" -> 4 [] c = "f" -> 5 [] c = "j" -> 6 [] c = "R" -> 7
      [] c = "w" -> 8

RECURSIVE NameBefore(_, _)
\* a.name.localeCompare(b.name) < 0
NameBefore(a, b) ==
    IF b = <<>> THEN FALSE
    ELSE IF a = <<>> THEN TRUE
    ELSE IF CharRank(Head(a)) # CharRank(Head(b))
         THEN CharRank(Head(a)) < CharRank(Head(b))
         ELSE NameBefore(Tail(a), Tail(b))

\* the comparison of files.sort: directories first, then by name
NodeBefore(a, b) ==
    IF a.type # b.type THEN a.type = "directory" ELSE NameBefore(a.name, b.name)

\* nodes as the array files.sort leaves it
SortNodes(nodes) ==
    [i \in 1..Cardinality(nodes) |->
        CHOOSE n \in nodes : Cardinality({m \in nodes : NodeBefore(m, n)}) = i - 1]

\* fs.readdir(fullPath) without the hidden entries, as FileNodes
VisibleNodes(fullPath) ==
    {[name |-> p[Len(p)],
      type |-> IF p \in dirs THEN "directory" ELSE "file"] :
        p \in {q \in dirs \cup DOMAIN files :
                 /\ q # <<>>
                 /\ Dirname(q) = fullPath
                 /\ (Head(q[Len(q)]) = "." => q[Len(q)] = ConfigName)}}

\* listFiles(projectId, relativePath)
ListFiles(id, rel) ==
    LET projectPath == ProjectPath(id)
        fullPath == PathJoin(projectPath, rel)
    IN  /\ IF id \notin DOMAIN projects
           THEN ret' = Ret("listFiles", id, None, "NotFound") /\ io' = {}
           ELSE IF ~PathAllowed(projectPath, fullPath)
           THEN ret' = Ret("listFiles", id, None, "AccessDenied") /\ io' = {}
           ELSE /\ io' = {fullPath}
                /\ ret' = IF fullPath \in dirs
                          THEN RetValue("listFiles", id, SortNodes(VisibleNodes(fullPath)))
                          ELSE Ret("listFiles", id, None, "failed")
        /\ UNCHANGED <<notFiles, projects, containers, docker, dirs, files,
                       createPc, createErr, deletePc, events, cleanupFailed>>

(***************************************************************************)
(* TerminalManager                                                         *)
(***************************************************************************)
\* `terminal_${projectId}_${Date.now()}`
SessionId(projectId, time) == <<projectId, time>>

\* the TerminalSession object made by createSession, with its pty
\*   running       the shell process has not exited
\*   signalled     pty.kill('SIGTERM') was called on it
\*   lastActivity  the clock reading of session.lastActivity
NewSession(projectId, sessionId) ==
    [projectId |-> projectId, sessionId |-> sessionId, isActive |-> TRUE,
     running |-> TRUE, signalled |-> FALSE, lastActivity |-> now]

InitTerminals ==
    /\ ptys = <<>>
    /\ sessions = EmptyMap
    /\ sessionsByProject = EmptyMap
    /\ killTimers = EmptyMap
    /\ now = 0

\* one more copy of x in the bag b (a function from elements to counts)
BagAdd(b, x) == IF x \in DOMAIN b THEN [b EXCEPT ![x] = @ + 1] ELSE MapSet(b, x, 1)

\* one copy of x less in the bag b
BagRemove(b, x) == IF b[x] = 1 THEN MapDelete(b, x) ELSE [b EXCEPT ![x] = @ - 1]

\* the clock advances by a millisecond
Tick ==
    /\ now < MaxTime
    /\ now' = now + 1
    /\ ret' = Outside
    /\ UNCHANGED <<notTerminals, ptys, sessions, sessionsByProject, killTimers>>

\* sessionsByProject after sessionId was taken out of the set of projectId
IndexDelete(index, projectId, sessionId) ==
    IF projectId \in DOMAIN index
    THEN IF index[projectId] \ {sessionId} = {}
         THEN MapDelete(index, projectId)
         ELSE MapSet(index, projectId, index[projectId] \ {sessionId})
    ELSE index

\* createSession(projectId, workingDir)
CreateSession(projectId, ok) ==
    /\ Len(ptys) < MaxPtys
    /\ LET sessionId == SessionId(projectId, now)
           n == Len(ptys) + 1
       IN  IF ok
           THEN /\ ptys' = Append(ptys, NewSession(projectId, sessionId))
                /\ sessions' = MapSet(sessions, sessionId, n)
                /\ sessionsByProject' =
                      MapSet(sessionsByProject, projectId,
                             (IF projectId \in DOMAIN sessionsByProject
                              THEN sessionsByProject[projectId] ELSE {})
                                \cup {sessionId})
                /\ ret' = RetValue("createSession", projectId, sessionId)
           ELSE /\ ret' = Ret("createSession", projectId, None, "failed")
                /\ UNCHANGED <<ptys, sessions, sessionsByProject>>
    /\ UNCHANGED <<notTerminals, killTimers, now>>

\* ptyProcess.onData of the n-th pty
PtyData(n) ==
    /\ ptys[n].running
    /\ ptys[n].lastActivity # now
    /\ ptys' = [ptys EXCEPT ![n].lastActivity = now]
    /\ ret' = Ret("terminal-output", ptys[n].sessionId, n, "data")
    /\ UNCHANGED <<notTerminals, sessions, sessionsByProject, killTimers, now>>

\* an onExit handler that takes the session out of the registry and leaves
\* the index of its project as it is
PtyExitKeepsIndex(n) ==
    /\ ptys[n].running
    /\ ptys' = [ptys EXCEPT ![n].running = FALSE, ![n].isActive = FALSE]
    /\ sessions' = MapDelete(sessions, ptys[n].sessionId)
    /\ ret' = Ret("terminal-exit", ptys[n].projectId, n, "exit")
    /\ UNCHANGED <<notTerminals, sessionsByProject, killTimers, now>>

\* ptyProcess.onExit of the n-th pty
PtyExit(n) ==
    /\ ptys[n].running
    /\ ptys' = [ptys EXCEPT ![n].running = FALSE, ![n].isActive = FALSE]
    /\ sessions' = MapDelete(sessions, ptys[n].sessionId)
    /\ sessionsByProject' =
          IndexDelete(sessionsByProject, ptys[n].projectId, ptys[n].sessionId)
    /\ ret' = Ret("terminal-exit", ptys[n].projectId, n, "exit")
    /\ UNCHANGED <<notTerminals, killTimers, now>>

\* the number of copies in the bag b
BagSize(b) ==
    LET RECURSIVE sum(_)
        sum(xs) == IF xs = {} THEN 0
                   ELSE LET x == CHOOSE y \in xs : TRUE IN b[x] + sum(xs \ {x})
    IN  sum(DOMAIN b)

\* the body of killSession(sessionId) on the state given; pty.kill throws
\* when the shell is no longer there
\*   pid      the pty that was signalled, None when none was
\*   emitted  the events emitted: <<"session-killed">> or none
KillEffect(ps, ss, timers, sessionId) ==
    IF sessionId \notin DOMAIN ss
    THEN [ptys |-> ps, timers |-> timers, pid |-> None, emitted |-> <<>>,
          result |-> FALSE]
    ELSE LET n == ss[sessionId]
         IN  IF ~ps[n].running
             THEN [ptys |-> ps, timers |-> timers, pid |-> None, emitted |-> <<>>,
                   result |-> FALSE]
             ELSE [ptys |-> [ps EXCEPT ![n].signalled = TRUE, ![n].isActive = FALSE],
                   timers |-> BagAdd(timers, <<sessionId, ps[n].projectId>>),
                   pid |-> n,
                   emitted |-> <<"session-killed">>,
                   result |-> TRUE]

\* killSession(sessionId)
KillSession(sessionId) ==
    LET k == KillEffect(ptys, sessions, killTimers, sessionId)
    IN  /\ sessionId \in DOMAIN sessions => BagSize(killTimers) < MaxKills
        /\ ptys' = k.ptys
        /\ killTimers' = k.timers
        /\ ret' = [Ret("killSession", sessionId, k.pid, k.result)
                      EXCEPT !.value = k.emitted]
        /\ UNCHANGED <<notTerminals, sessions, sessionsByProject, now>>

\* the 5000 ms timer of a killSession(timer[1]) call
KillTimer(timer) ==
    /\ timer \in DOMAIN killTimers
    /\ killTimers' = BagRemove(killTimers, timer)
    /\ IF timer[1] \in DOMAIN sessions
       THEN /\ sessions' = MapDelete(sessions, timer[1])
            /\ sessionsByProject' = IndexDelete(sessionsByProject, timer[2], timer[1])
       ELSE UNCHANGED <<sessions, sessionsByProject>>
    /\ ret' = Ret("killTimer", timer[1],
                  IF timer[1] \in DOMAIN sessions THEN sessions[timer[1]] ELSE None,
                  timer[1] \in DOMAIN sessions)
    /\ UNCHANGED <<notTerminals, ptys, now>>

RECURSIVE KillEach(_, _, _, _)
\* for (const sessionId of sessionIds) if (this.killSession(sessionId)) killedCount++
KillEach(ps, timers, ids, count) ==
    IF ids = {} THEN [ptys |-> ps, timers |-> timers, count |-> count]
    ELSE LET id == CHOOSE x \in ids : TRUE
             k == KillEffect(ps, sessions, timers, id)
         IN  KillEach(k.ptys, k.timers, ids \ {id},
                      IF k.result THEN count + 1 ELSE count)

\* killProjectSessions(projectId)
KillProjectSessions(projectId) ==
    LET ids == IF projectId \in DOMAIN sessionsByProject
               THEN sessionsByProject[projectId] ELSE {}
        k == KillEach(ptys, killTimers, ids, 0)
    IN  /\ BagSize(killTimers) + Cardinality(ids) <= MaxKills
        /\ ptys' = k.ptys
        /\ killTimers' = k.timers
        /\ ret' = RetValue("killProjectSessions", projectId, <<k.count>>)
        /\ UNCHANGED <<notTerminals, sessions, sessionsByProject, now>>

\* a body that does not look at session.isActive
PtyWriteToInactive(op, sessionId, touch, ok) ==
    /\ IF sessionId \in DOMAIN sessions
       THEN IF ok
            THEN /\ ptys' = IF touch
                            THEN [ptys EXCEPT ![sessions[sessionId]].lastActivity = now]
                            ELSE ptys
                 /\ ret' = Ret(op, sessionId, sessions[sessionId], TRUE)
            ELSE /\ ret' = Ret(op, sessionId, None, FALSE)
                 /\ UNCHANGED ptys
       ELSE /\ ret' = Ret(op, sessionId, None, FALSE)
            /\ UNCHANGED ptys
    /\ UNCHANGED <<notTerminals, sessions, sessionsByProject, killTimers, now>>

\* the body writeToSession, resizeSession, interruptSession and clearSession share:
\* session.pty.write (or resize) inside try/catch; `touch` is writeToSession's
\* update of lastActivity; `ok` is whether the pty call returned
PtyWrite(op, sessionId, touch, ok) ==
    /\ IF sessionId \in DOMAIN sessions /\ ptys[sessions[sessionId]].isActive
       THEN IF ok
            THEN /\ ptys' = IF touch
                            THEN [ptys EXCEPT ![sessions[sessionId]].lastActivity = now]
                            ELSE ptys
                 /\ ret' = Ret(op, sessionId, sessions[sessionId], TRUE)
            ELSE /\ ret' = Ret(op, sessionId, None, FALSE)
                 /\ UNCHANGED ptys
       ELSE /\ ret' = Ret(op, sessionId, None, FALSE)
            /\ UNCHANGED ptys
    /\ UNCHANGED <<notTerminals, sessions, sessionsByProject, killTimers, now>>

\* writeToSession(sessionId, data)
WriteToSession(sessionId, ok) == PtyWrite("writeToSession", sessionId, TRUE, ok)

\* resizeSession(sessionId, cols, rows): session.pty.resize inside try/catch
ResizeSession(sessionId, ok) == PtyWrite("resizeSession", sessionId, FALSE, ok)

\* interruptSession(sessionId)
InterruptSession(sessionId, ok) == PtyWrite("interruptSession", sessionId, FALSE, ok)

\* clearSession(sessionId)
ClearSession(sessionId, ok) == PtyWrite("clearSession", sessionId, FALSE, ok)

\* the session ids callers pass
SessionIds == {SessionId(p, t) : p \in ProjectIds, t \in 0..MaxTime}

\* POST /terminal/:projectId/create: getProjectPath, then createSession
OpenTerminal(projectId, ok) ==
    IF projectId \in DOMAIN projects
    THEN CreateSession(projectId, ok)
    ELSE /\ ret' = Ret("openTerminal", projectId, None, "NotFound")
         /\ UNCHANGED <<notTerminals, tmVars>>

\* the TerminalManager behind the routes that open and kill terminals
\* (killProjectSessions has no caller)
NextOpenKill ==
    \/ Tick
    \/ \E p \in ProjectIds, ok \in BOOLEAN : OpenTerminal(p, ok)
    \/ \E n \in 1..Len(ptys) : PtyExit(n)
    \/ \E s \in SessionIds : KillSession(s)
    \/ \E t \in DOMAIN killTimers : KillTimer(t)

\* the TerminalManager on its own
NextTerminals ==
    \/ Tick
    \/ \E p \in ProjectIds, ok \in BOOLEAN : CreateSession(p, ok)
    \/ \E n \in 1..Len(ptys) : PtyData(n)
    \/ \E n \in 1..Len(ptys) : PtyExit(n)
    \/ \E s \in SessionIds : KillSession(s)
    \/ \E t \in DOMAIN killTimers : KillTimer(t)
    \/ \E p \in ProjectIds : KillProjectSessions(p)
    \/ \E s \in SessionIds, ok \in BOOLEAN : WriteToSession(s, ok)
    \/ \E s \in SessionIds, ok \in BOOLEAN : ResizeSession(s, ok)
    \/ \E s \in SessionIds, ok \in BOOLEAN : InterruptSession(s, ok)
    \/ \E s \in SessionIds, ok \in BOOLEAN : ClearSession(s, ok)

\* the session ids handed out so far, and one that never is: callers pass
\* ids they were given, stale ones, and made-up ones
KnownIds ==
    {ptys[n].sessionId : n \in 1..Len(ptys)} \cup {SessionId(<<"none">>, 0)}

\* the operations on the sessions of a TerminalManager with few sessions
NextPtyOps ==
    \/ Tick
    \/ \E p \in ProjectIds, ok \in BOOLEAN :
          Len(ptys) < MaxOpen /\ CreateSession(p, ok)
    \/ \E n \in 1..Len(ptys) : PtyData(n)
    \/ \E n \in 1..Len(ptys) : PtyExit(n)
    \/ \E s \in KnownIds : KillSession(s)
    \/ \E t \in DOMAIN killTimers : KillTimer(t)
    \/ \E s \in KnownIds, ok \in BOOLEAN : WriteToSession(s, ok)
    \/ \E s \in KnownIds, ok \in BOOLEAN : ResizeSession(s, ok)
    \/ \E s \in KnownIds, ok \in BOOLEAN : InterruptSession(s, ok)
    \/ \E s \in KnownIds, ok \in BOOLEAN : ClearSession(s, ok)

\* the ProjectManager while the clock advances, with commands run in the
\* containers
NextAccess ==
    \/ NextProjects
    \/ Tick
    \/ \E id \in AllIds, code \in {0, 1}, ok \in BOOLEAN : ExecuteInContainer(id, code, ok)

\* the project and terminal routes of one server
NextServer == NextCreateDelete \/ NextOpenKill

(***************************************************************************)
(* WebSocketServer                                                         *)
(***************************************************************************)
\* the socket ids: the n-th socket to connect has id n
Conns == 1..MaxConns

\* the room names `project_${projectId}` and `terminal_${sessionId}`
Room(kind, id) == <<kind, id>>

\* the session ids that clients and TerminalManager events name
TerminalIds == {SessionId(ProjectId(1), 0)}

\* the projects whose room the clients join and leave; the managers emit
\* events of every project of ProjectIds
WatchedIds == {ProjectId(1)}

InitRouter ==
    /\ socketSessions = EmptyMap
    /\ connCount = 0
    /\ rooms = [c \in Conns |-> {}]
    /\ inbox = [c \in Conns |-> <<>>]
    /\ emitted = 0

\* io.on('connection'): register the SocketSession of the new socket
Connect ==
    /\ connCount < MaxConns
    /\ connCount' = connCount + 1
    /\ socketSessions' = MapSet(socketSessions, connCount + 1,
                                [socketId |-> connCount + 1, lastActivity |-> now])
    /\ ret' = Ret("connection", connCount + 1, None, "ok")
    /\ UNCHANGED <<notRouter, rooms, inbox, emitted>>

\* a disconnect that also ends the terminal sessions
DisconnectEndsSessions(c) ==
    /\ c \in DOMAIN socketSessions
    /\ socketSessions' = MapDelete(socketSessions, c)
    /\ rooms' = [rooms EXCEPT ![c] = {}]
    /\ ptys' = [n \in DOMAIN ptys |-> [ptys[n] EXCEPT !.isActive = FALSE]]
    /\ ret' = Ret("disconnect", c, None, "ok")
    /\ UNCHANGED <<bridgeVars, pmVars, sessions, sessionsByProject, killTimers,
                   now, serverVars, openAtDelete, connCount, inbox, emitted>>

\* socket.on('disconnect'): socket.io has taken the socket out of its rooms,
\* the handler deletes its SocketSession
Disconnect(c) ==
    /\ c \in DOMAIN socketSessions
    /\ socketSessions' = MapDelete(socketSessions, c)
    /\ rooms' = [rooms EXCEPT ![c] = {}]
    /\ ret' = Ret("disconnect", c, None, "ok")
    /\ UNCHANGED <<notRouter, connCount, inbox, emitted>>

\* updateActivity of the socket handlers
UpdateActivity(c) == [socketSessions EXCEPT ![c].lastActivity = now]

\* socket.on('join_project') and socket.on('join_terminal'): socket.join
Join(c, kind, id) ==
    /\ c \in DOMAIN socketSessions
    /\ socketSessions' = UpdateActivity(c)
    /\ rooms' = [rooms EXCEPT ![c] = @ \cup {Room(kind, id)}]
    /\ ret' = Ret("join", c, None, kind)
    /\ UNCHANGED <<notRouter, connCount, inbox, emitted>>

\* socket.on('leave_project') and socket.on('leave_terminal'): socket.leave
Leave(c, kind, id) ==
    /\ c \in DOMAIN socketSessions
    /\ socketSessions' = UpdateActivity(c)
    /\ rooms' = [rooms EXCEPT ![c] = @ \ {Room(kind, id)}]
    /\ ret' = Ret("leave", c, None, kind)
    /\ UNCHANGED <<notRouter, connCount, inbox, emitted>>

\* an emit whose message overtakes the ones sent before
EmitToFront(ib, room, message) ==
    [c \in Conns |-> IF room \in rooms[c] THEN <<message>> \o ib[c] ELSE ib[c]]

\* this.io.to(room).emit(name, ...): one message to every socket in the room
EmitTo(ib, room, message) ==
    [c \in Conns |-> IF room \in rooms[c] THEN Append(ib[c], message) ELSE ib[c]]

\* this.io.emit(name, ...): one message to every connected socket
EmitAll(ib, message) ==
    [c \in Conns |-> IF c \in DOMAIN socketSessions
                     THEN Append(ib[c], message)
                     ELSE ib[c]]

RECURSIVE EmitEach(_, _, _, _)
\* the emits one upstream event leads to, in the order the listeners run
EmitEach(ib, room, names, seq) ==
    IF names = <<>> THEN ib
    ELSE EmitEach(EmitTo(ib, room, <<seq, Head(names)>>), room, Tail(names), seq)

\* what setupClaudeCodeEvents and the callbacks handed to
\* startInteractiveSession relay to `project_${projectId}`.  The Bridge hands
\* a chunk of an interactive session to the callback (claude_code_output) and
\* then emits 'interactive-output' / 'interactive-error'.
BridgeRelays ==
    {[event |-> "stdout", names |-> <<"claude_code_output">>],
     [event |-> "stderr", names |-> <<"claude_code_output">>],
     [event |-> "session-ended", names |-> <<"claude_code_session_ended">>],
     [event |-> "session-error", names |-> <<"claude_code_error">>],
     [event |-> "interactive-output",
      names |-> <<"claude_code_output", "claude_code_interactive_output">>],
     [event |-> "interactive-error",
      names |-> <<"claude_code_output", "claude_code_interactive_error">>]}

\* what setupTerminalEvents relays to `terminal_${sessionId}`
TerminalRelays ==
    {[event |-> "terminal-output", names |-> <<"terminal_output">>],
     [event |-> "terminal-exit", names |-> <<"terminal_exit">>],
     [event |-> "session-killed", names |-> <<"terminal_session_killed">>]}

\* what setupTerminalEvents relays to `project_${projectId}`
CommandRelays ==
    {[event |-> "session-created", names |-> <<"terminal_session_created">>],
     [event |-> "command-output", names |-> <<"command_output">>],
     [event |-> "command-error", names |-> <<"command_error">>],
     [event |-> "command-executed", names |-> <<"command_executed">>],
     [event |-> "command-failed", names |-> <<"command_failed">>]}

\* what setupProjectEvents sends to every socket
ProjectRelays ==
    {[event |-> "project-created", names |-> <<"project_created">>],
     [event |-> "project-deleted", names |-> <<"project_deleted">>]}

\* a listener that sends to every socket instead of the room
RelayToAll(relay, room) ==
    /\ emitted' = emitted + 1
    /\ inbox' = EmitAll(inbox, <<emitted + 1, Head(relay.names)>>)
    /\ ret' = Ret("relay", room, None, relay.event)
    /\ UNCHANGED <<notRouter, socketSessions, connCount, rooms>>

\* a manager emits `relay.event` for the room: the listeners of the
\* WebSocketServer run
Relay(relay, room) ==
    /\ emitted' = emitted + 1
    /\ inbox' = EmitEach(inbox, room, relay.names, emitted + 1)
    /\ ret' = Ret("relay", room, None, relay.event)
    /\ UNCHANGED <<notRouter, socketSessions, connCount, rooms>>

\* the listeners of setupProjectEvents
Broadcast(relay, projectId) ==
    /\ emitted' = emitted + 1
    /\ inbox' = EmitAll(inbox, <<emitted + 1, Head(relay.names)>>)
    /\ ret' = Ret("broadcast", projectId, None, relay.event)
    /\ UNCHANGED <<notRouter, socketSessions, connCount, rooms>>

NextRouter ==
    \/ Connect
    \/ \E c \in Conns : Disconnect(c)
    \/ \E c \in Conns, p \in WatchedIds : Join(c, "project", p)
    \/ \E c \in Conns, s \in TerminalIds : Join(c, "terminal", s)
    \/ \E c \in Conns, p \in WatchedIds : Leave(c, "project", p)
    \/ \E c \in Conns, s \in TerminalIds : Leave(c, "terminal", s)
    \/ \E r \in BridgeRelays, p \in ProjectIds :
          emitted < MaxEvents /\ Relay(r, Room("project", p))
    \/ \E r \in TerminalRelays, s \in TerminalIds :
          emitted < MaxEvents /\ Relay(r, Room("terminal", s))
    \/ \E r \in CommandRelays, p \in ProjectIds :
          emitted < MaxEvents /\ Relay(r, Room("project", p))
    \/ \E r \in ProjectRelays, p \in ProjectIds :
          emitted < MaxEvents /\ Broadcast(r, p)

\* the sessions whose output is followed in SpecStream
StreamIds == {SessionId(p, 0) : p \in ProjectIds}

\* sockets joining and leaving terminal rooms while the sessions emit
\* MaxChunks events: ptyProcess.onData emits each chunk as 'terminal-output'
\* and the listener of setupTerminalEvents sends it to the session's room
NextStream ==
    \/ Connect
    \/ \E c \in Conns : Disconnect(c)
    \/ \E c \in Conns, s \in StreamIds : Join(c, "terminal", s)
    \/ \E c \in Conns, s \in StreamIds : Leave(c, "terminal", s)
    \/ \E r \in TerminalRelays, s \in StreamIds :
          emitted < MaxChunks /\ Relay(r, Room("terminal", s))

(***************************************************************************)
(* MCPReplicLaudeServer: the periodic cleanup                             *)
(***************************************************************************)
\* the default maxIdleTime of both cleanupIdleSessions (30 minutes), in
\* clock readings
MaxIdleTime == 0

\* TerminalManager.cleanupIdleSessions: the sessionsToCleanup it collects
IdleSessions(maxIdleTime) ==
    {s \in DOMAIN sessions : /\ ptys[sessions[s]].isActive
                             /\ now - ptys[sessions[s]].lastActivity > maxIdleTime}

\* WebSocketServer.cleanupIdleSessions: the socketsToDisconnect it collects
IdleSockets(maxIdleTime) ==
    {c \in DOMAIN socketSessions : now - socketSessions[c].lastActivity > maxIdleTime}

\* the agent sessions whose lastActivity is older than maxIdleTime; no code
\* computes this set
IdleAgents(maxIdleTime) ==
    {p \in ProjectIds : /\ sessionStates[p] # None
                        /\ now - procs[sessionStates[p]].lastActivity > maxIdleTime}

\* a cleanupIdleSessions that kills every registered session
CleanupEverySession(maxIdleTime) ==
    LET ids == DOMAIN sessions
        k == KillEach(ptys, killTimers, ids, 0)
    IN  /\ BagSize(killTimers) + Cardinality(ids) <= MaxKills
        /\ ptys' = k.ptys
        /\ killTimers' = k.timers
        /\ ret' = RetValue("cleanupIdleSessions", maxIdleTime, k.count)
        /\ UNCHANGED <<notTerminals, sessions, sessionsByProject, now>>

\* TerminalManager.cleanupIdleSessions(maxIdleTime): killSession on every
\* session collected, the calls that returned true counted
CleanupIdleSessions(maxIdleTime) ==
    LET ids == IdleSessions(maxIdleTime)
        k == KillEach(ptys, killTimers, ids, 0)
    IN  /\ BagSize(killTimers) + Cardinality(ids) <= MaxKills
        /\ ptys' = k.ptys
        /\ killTimers' = k.timers
        /\ ret' = RetValue("cleanupIdleSessions", maxIdleTime, k.count)
        /\ UNCHANGED <<notTerminals, sessions, sessionsByProject, now>>

\* the TerminalManager with its sessions opened, used, ended and scanned for
\* idle ones while the clock advances
NextIdle ==
    \/ Tick
    \/ \E p \in WatchedIds : CreateSession(p, TRUE)
    \/ \E n \in 1..Len(ptys) : PtyData(n)
    \/ \E n \in 1..Len(ptys) : PtyExit(n)
    \/ \E s \in KnownIds : KillSession(s)
    \/ \E t \in DOMAIN killTimers : KillTimer(t)
    \/ \E maxIdleTime \in 0..MaxTime : CleanupIdleSessions(maxIdleTime)

\* TerminalManager.cleanup(), up to its 2000 ms wait: killSession on every
\* registered session
TerminalCleanupStart ==
    LET ids == DOMAIN sessions
        k == KillEach(ptys, killTimers, ids, 0)
    IN  /\ terminalCleanup = "idle"
        /\ BagSize(killTimers) + Cardinality(ids) <= MaxKills
        /\ ptys' = k.ptys
        /\ killTimers' = k.timers
        /\ terminalCleanup' = "waiting"
        /\ ret' = Ret("terminalCleanup", <<>>, None, "waiting")
        /\ UNCHANGED <<bridgeVars, pmVars, routerVars, openAtDelete, sessions,
                       sessionsByProject, now, scansStarted, scansFinished,
                       isShuttingDown, shutdownTimeout, teardown, exitCode, mcp>>

\* TerminalManager.cleanup(), after the wait: both maps are cleared
TerminalCleanupFinish ==
    /\ terminalCleanup = "waiting"
    /\ sessions' = EmptyMap
    /\ sessionsByProject' = EmptyMap
    /\ terminalCleanup' = "idle"
    /\ ret' = Ret("terminalCleanup", <<>>, None, "done")
    /\ UNCHANGED <<bridgeVars, pmVars, routerVars, openAtDelete, ptys, killTimers,
                   now, scansStarted, scansFinished, isShuttingDown,
                   shutdownTimeout, teardown, exitCode, mcp>>

\* the session pool under every operation that writes its two maps
NextPool ==
    \/ Tick
    \/ \E p \in WatchedIds : CreateSession(p, TRUE)
    \/ \E n \in 1..Len(ptys) : PtyExit(n)
    \/ \E s \in KnownIds : KillSession(s)
    \/ \E t \in DOMAIN killTimers : KillTimer(t)
    \/ \E p \in WatchedIds : KillProjectSessions(p)
    \/ CleanupIdleSessions(MaxIdleTime)
    \/ TerminalCleanupStart
    \/ TerminalCleanupFinish

\* WebSocketServer.cleanupIdleSessions(maxIdleTime): socket.disconnect(true)
\* on every idle socket, which runs its 'disconnect' handler
CleanupIdleSockets(maxIdleTime) ==
    LET gone == IdleSockets(maxIdleTime)
    IN  /\ socketSessions' = [c \in DOMAIN socketSessions \ gone |-> socketSessions[c]]
        /\ rooms' = [c \in Conns |-> IF c \in gone THEN {} ELSE rooms[c]]
        /\ ret' = RetValue("cleanupIdleSockets", gone, <<Cardinality(gone)>>)
        /\ UNCHANGED <<notRouter, connCount, inbox, emitted>>

\* new ReplicClaudeMaxServer(): its constructor makes a ClaudeCodeBridge, a
\* ProjectManager and a TerminalManager of its own
\*   isClaudeCodeAvailable, probe, activeProcesses, sessionStates
\*                the fields of its ClaudeCodeBridge
\*   projects     the ids registered in its ProjectManager, `loaded` by
\*                its loadExistingProjects
\*   children     the child processes its Bridge has spawned
McpServer(loaded) ==
    [isClaudeCodeAvailable |-> FALSE, probe |-> "pending",
     activeProcesses |-> [p \in ProjectIds |-> None],
     sessionStates |-> [p \in ProjectIds |-> None],
     projects |-> loaded, children |-> {}]

InitServer ==
    /\ scansStarted = 0
    /\ scansFinished = 0
    /\ isShuttingDown = FALSE
    /\ shutdownTimeout = FALSE
    /\ teardown = "none"
    /\ exitCode = NoExit
    /\ terminalCleanup = "idle"
    /\ mcp = McpServer({})

\* a performPeriodicCleanup that awaits between its two cleanups: one step
\* runs the first half of a scan, or the second half of a scan begun before
PerformPeriodicCleanupAsync ==
    \/ LET ids == IdleSessions(MaxIdleTime)
           k == KillEach(ptys, killTimers, ids, 0)
       IN  /\ BagSize(killTimers) + Cardinality(ids) <= MaxKills
           /\ ptys' = k.ptys
           /\ killTimers' = k.timers
           /\ scansStarted' = scansStarted + 1
           /\ ret' = RetValue("performPeriodicCleanup", {}, <<k.count>>)
           /\ UNCHANGED <<bridgeVars, pmVars, sessions, sessionsByProject, now,
                          routerVars, scansFinished, isShuttingDown,
                          shutdownTimeout, teardown, exitCode, terminalCleanup, mcp,
                          openAtDelete>>
    \/ LET gone == IdleSockets(MaxIdleTime)
       IN  /\ scansFinished < scansStarted
           /\ socketSessions' = [c \in DOMAIN socketSessions \ gone |-> socketSessions[c]]
           /\ rooms' = [c \in Conns |-> IF c \in gone THEN {} ELSE rooms[c]]
           /\ scansFinished' = scansFinished + 1
           /\ ret' = RetValue("performPeriodicCleanup", gone, <<Cardinality(gone)>>)
           /\ UNCHANGED <<bridgeVars, pmVars, tmVars, connCount, inbox, emitted,
                          scansStarted, isShuttingDown, shutdownTimeout, teardown,
                          exitCode, terminalCleanup, mcp, openAtDelete>>

\* performPeriodicCleanup(), the callback of the 5 minute setInterval:
\* terminalManager.cleanupIdleSessions() then
\* webSocketServer.cleanupIdleSessions(), in one synchronous call that
\* catches what they throw
PerformPeriodicCleanup ==
    LET ids == IdleSessions(MaxIdleTime)
        k == KillEach(ptys, killTimers, ids, 0)
        gone == IdleSockets(MaxIdleTime)
    IN  /\ BagSize(killTimers) + Cardinality(ids) <= MaxKills
        /\ ptys' = k.ptys
        /\ killTimers' = k.timers
        /\ socketSessions' = [c \in DOMAIN socketSessions \ gone |-> socketSessions[c]]
        /\ rooms' = [c \in Conns |-> IF c \in gone THEN {} ELSE rooms[c]]
        /\ scansStarted' = scansStarted + 1
        /\ scansFinished' = scansFinished + 1
        /\ ret' = RetValue("performPeriodicCleanup", gone, <<k.count, Cardinality(gone)>>)
        /\ UNCHANGED <<bridgeVars, pmVars, sessions, sessionsByProject, now,
                       connCount, inbox, emitted, isShuttingDown, shutdownTimeout,
                       teardown, exitCode, terminalCleanup, mcp, openAtDelete>>

\* sockets, terminal sessions and agent sessions of the projects of
\* WatchedIds while the clock advances and the scan runs
NextReaper ==
    \/ Tick
    \/ \E code \in {0, 1} : VerifyClose(code)
    \/ \E p \in WatchedIds : Len(procs) < MaxSpawn /\ StartInteractiveSession(p)
    \/ \E p \in WatchedIds : SendToSession(p)
    \/ \E p \in WatchedIds : Len(ptys) < MaxOpen /\ CreateSession(p, TRUE)
    \/ \E t \in DOMAIN killTimers : KillTimer(t)
    \/ Connect
    \/ \E c \in Conns : Disconnect(c)
    \/ \E c \in Conns, s \in TerminalIds : Join(c, "terminal", s)
    \/ CleanupIdleSockets(MaxIdleTime)
    \/ scansStarted < MaxScans /\ PerformPeriodicCleanup

(***************************************************************************)
(* MCPReplicLaudeServer: shutdown                                          *)
(***************************************************************************)
\* what gracefulShutdown is called with by the signal handlers
Signals == {"SIGTERM", "SIGINT", "SIGHUP"}

\* a gracefulShutdown that does not look at isShuttingDown: every call arms
\* the timer and calls the cleanups
GracefulShutdownAgain(signal) ==
    /\ exitCode = NoExit
    /\ isShuttingDown' = TRUE
    /\ shutdownTimeout' = TRUE
    /\ teardown' = "pending"
    /\ ret' = Ret("gracefulShutdown", <<signal>>, None, TRUE)
    /\ UNCHANGED <<notServer, scansStarted, scansFinished, exitCode, terminalCleanup, mcp>>

\* gracefulShutdown(signal), up to its await: return when a shutdown is in
\* progress; otherwise set the flag, arm the 30000 ms timer, close the http
\* server and call the four cleanups (teardown = "pending")
GracefulShutdown(signal) ==
    /\ exitCode = NoExit
    /\ IF isShuttingDown
       THEN UNCHANGED <<isShuttingDown, shutdownTimeout, teardown>>
       ELSE /\ isShuttingDown' = TRUE
            /\ shutdownTimeout' = TRUE
            /\ teardown' = "pending"
    /\ ret' = Ret("gracefulShutdown", <<signal>>, None, ~isShuttingDown)
    /\ UNCHANGED <<notServer, scansStarted, scansFinished, exitCode, terminalCleanup, mcp>>

\* process 'unhandledRejection': the listener of the logger module logs,
\* the listener of setupErrorHandling calls gracefulShutdown unless
\* isShuttingDown, where gracefulShutdown would return at once
UnhandledRejection == GracefulShutdown("unhandledRejection")

\* process 'uncaughtException': the listeners run in the order they were
\* added; the logger module adds its listener when it is imported, before
\* the server is constructed, and that listener calls process.exit(1)
UncaughtException ==
    /\ exitCode = NoExit
    /\ exitCode' = 1
    /\ ret' = Ret("uncaughtException", <<>>, None, "exit")
    /\ UNCHANGED <<notServer, scansStarted, scansFinished, isShuttingDown,
                   shutdownTimeout, teardown, terminalCleanup, mcp>>

\* the Promise.all of gracefulShutdown settles: clearTimeout and
\* process.exit(0) when it resolved, process.exit(1) in the catch block
TeardownSettled(ok) ==
    /\ exitCode = NoExit
    /\ teardown = "pending"
    /\ teardown' = IF ok THEN "done" ELSE "failed"
    /\ shutdownTimeout' = IF ok THEN FALSE ELSE shutdownTimeout
    /\ exitCode' = IF ok THEN 0 ELSE 1
    /\ ret' = Ret("gracefulShutdown", <<>>, None, IF ok THEN "done" ELSE "failed")
    /\ UNCHANGED <<notServer, scansStarted, scansFinished, isShuttingDown,
                   terminalCleanup, mcp>>

\* the 30000 ms timer of gracefulShutdown: process.exit(1)
ShutdownTimeout ==
    /\ exitCode = NoExit
    /\ shutdownTimeout
    /\ shutdownTimeout' = FALSE
    /\ exitCode' = 1
    /\ ret' = Ret("shutdownTimeout", <<>>, None, "exit")
    /\ UNCHANGED <<notServer, scansStarted, scansFinished, isShuttingDown, teardown,
                   terminalCleanup, mcp>>

\* the process from its start to its exit: sockets, terminal sessions and
\* agent sessions come and go until a signal or a fatal error arrives
NextShutdown ==
    \/ \E code \in {0, 1} : exitCode = NoExit /\ VerifyClose(code)
    \/ \E p \in ProjectIds :
          exitCode = NoExit /\ Len(procs) < MaxSpawn /\ StartInteractiveSession(p)
    \/ \E p \in ProjectIds : exitCode = NoExit /\ TerminateSession(p)
    \/ \E p \in ProjectIds :
          exitCode = NoExit /\ Len(ptys) < MaxOpen /\ CreateSession(p, TRUE)
    \/ exitCode = NoExit /\ Connect
    \/ \E c \in Conns : exitCode = NoExit /\ Disconnect(c)
    \/ \E signal \in Signals : GracefulShutdown(signal)
    \/ UnhandledRejection
    \/ UncaughtException
    \/ \E ok \in BOOLEAN : TeardownSettled(ok)
    \/ ShutdownTimeout

(***************************************************************************)
(* EventEmitter: listeners that throw                                      *)
(***************************************************************************)
\* the listeners of one event, in the order they were added
Listeners == 1..2

\* emit(name, ...) calls the listeners in order and lets what a listener
\* throws out to its caller: the listeners called when `thrower` throws
Heard(thrower) == {l \in Listeners : l <= thrower}

\* the end of createProject when a listener of 'project-created' throws:
\* the emit is inside the try block, so the catch block runs
CreateEmitThrows(id, thrower) ==
    /\ createPc[id] = "save2"
    /\ CanWrite(ConfigPath(id))
    /\ files' = MapSet(files, ConfigPath(id), ConfigText(projects[id]))
    /\ events' = Emit(<<"project-created", id>>)
    /\ createPc' = [createPc EXCEPT ![id] = "rollback"]
    /\ createErr' = [createErr EXCEPT ![id] = "emit"]
    /\ ret' = [Ret("emit", id, None, "threw") EXCEPT !.value = Heard(thrower)]
    /\ UNCHANGED <<notProjects, projects, containers, docker, dirs, deletePc,
                   cleanupFailed>>

\* ptyProcess.onData of the n-th pty when a listener of 'terminal-output'
\* throws: nothing catches it below the top level, process emits
\* 'uncaughtException' and the listener of the logger module exits
PtyDataThrows(n, thrower) ==
    /\ ptys[n].running
    /\ ptys' = [ptys EXCEPT ![n].lastActivity = now]
    /\ exitCode' = 1
    /\ ret' = [Ret("emit", ptys[n].sessionId, n, "threw") EXCEPT !.value = Heard(thrower)]
    /\ UNCHANGED <<bridgeVars, pmVars, routerVars, sessions, sessionsByProject,
                   killTimers, now, scansStarted, scansFinished, isShuttingDown,
                   shutdownTimeout, teardown, terminalCleanup, mcp, openAtDelete>>

\* createProject and terminal sessions with listeners that may throw, until
\* the process exits
NextListeners ==
    \/ \E id \in AllIds : exitCode = NoExit /\ CreateProject(id)
    \/ \E id \in AllIds, ok \in BOOLEAN : exitCode = NoExit /\ CreateMkdir(id, ok)
    \/ \E id \in AllIds, ok \in BOOLEAN : exitCode = NoExit /\ CreateTemplate(id, ok)
    \/ \E id \in AllIds, ok \in BOOLEAN : exitCode = NoExit /\ CreateSave1(id, ok)
    \/ \E id \in AllIds, ok \in BOOLEAN : exitCode = NoExit /\ CreateContainer(id, ok)
    \/ \E id \in AllIds, ok \in BOOLEAN : exitCode = NoExit /\ CreateStart(id, ok)
    \/ \E id \in AllIds, ok \in BOOLEAN : exitCode = NoExit /\ CreateSave2(id, ok)
    \/ \E id \in AllIds, l \in Listeners : exitCode = NoExit /\ CreateEmitThrows(id, l)
    \/ \E id \in AllIds, ok \in BOOLEAN : exitCode = NoExit /\ CreateRollback(id, ok)
    \/ \E p \in WatchedIds :
          exitCode = NoExit /\ Len(ptys) < MaxOpen /\ CreateSession(p, TRUE)
    \/ exitCode = NoExit /\ Tick
    \/ \E n \in 1..Len(ptys) : exitCode = NoExit /\ PtyData(n)
    \/ \E n \in 1..Len(ptys), l \in Listeners : exitCode = NoExit /\ PtyDataThrows(n, l)

\* the state in which createProject has returned for every id of AllIds
InitFiles ==
    /\ InitBridge
    /\ projects = [id \in AllIds |-> ProjectInfo("active", id, 0)]
    /\ containers = [id \in AllIds |-> id]
    /\ docker = [id \in AllIds |-> "running"]
    /\ dirs = Prefixes(ProjectsDir) \cup {ProjectPath(id) : id \in AllIds}
    /\ files = [f \in {ConfigPath(id) : id \in AllIds}
                      \cup {Append(ProjectPath(id), ReadmeName) : id \in AllIds}
                  |-> IF f[Len(f)] = ConfigName
                      THEN ConfigText(ProjectInfo("active", f[Len(f) - 1], 0))
                      ELSE Ascii("readme")]
    /\ createPc = [id \in AllIds |-> "done"]
    /\ createErr = [id \in AllIds |-> "none"]
    /\ deletePc = [id \in AllIds |-> "idle"]
    /\ events = [e \in {"project-created", "project-deleted"} \X AllIds |->
                    IF e[1] = "project-created" THEN 1 ELSE 0]
    /\ cleanupFailed = {}
    /\ io = {}
    /\ InitTerminals
    /\ InitRouter
    /\ InitServer
    /\ openAtDelete = [id \in AllIds |-> {}]
    /\ ret = Ret("init", <<>>, None, "ok")

NextFiles ==
    \/ \E id \in FileIds, rel \in RelPaths : ReadFile(id, rel)
    \/ \E id \in FileIds, rel \in RelPaths, c \in Contents, ok \in BOOLEAN :
          WriteFile(id, rel, c, ok)
    \/ \E id \in FileIds, rel \in RelPaths : ListFiles(id, rel)

(***************************************************************************)
(* Restart of the process                                                  *)
(***************************************************************************)
\* the entries of projectsDir that are directories holding a config file
Persisted == {id \in AllIds : ProjectPath(id) \in dirs /\ ConfigPath(id) \in DOMAIN files}

\* what the process loses when it ends: every registry of the Bridge, the
\* TerminalManager, the WebSocketServer and the server, and the calls in
\* progress; the file system, the container runtime and the clock stay
ProcessStarts ==
    /\ isClaudeCodeAvailable' = FALSE
    /\ probe' = "pending"
    /\ procs' = <<>>
    /\ activeProcesses' = [p \in ProjectIds |-> None]
    /\ sessionStates' = [p \in ProjectIds |-> None]
    /\ bridgeCleanup' = "idle"
    /\ ptys' = <<>>
    /\ sessions' = EmptyMap
    /\ sessionsByProject' = EmptyMap
    /\ killTimers' = EmptyMap
    /\ socketSessions' = EmptyMap
    /\ connCount' = 0
    /\ rooms' = [c \in Conns |-> {}]
    /\ inbox' = [c \in Conns |-> <<>>]
    /\ emitted' = 0
    /\ scansStarted' = 0
    /\ scansFinished' = 0
    /\ isShuttingDown' = FALSE
    /\ shutdownTimeout' = FALSE
    /\ teardown' = "none"
    /\ exitCode' = NoExit
    /\ terminalCleanup' = "idle"
    /\ containers' = EmptyMap
    /\ createPc' = [id \in AllIds |-> IF createPc[id] = "idle" THEN "idle" ELSE "lost"]
    /\ createErr' = [id \in AllIds |-> "none"]
    /\ deletePc' = [id \in AllIds |-> "idle"]
    /\ cleanupFailed' = {}
    /\ io' = {}
    /\ openAtDelete' = [id \in AllIds |-> {}]
    /\ UNCHANGED <<docker, dirs, files, events, now>>

\* a loadExistingProjects that registers what the config file holds, status
\* included
RestartKeepsStatus(readable) ==
    /\ readable \subseteq Persisted
    /\ ProcessStarts
    /\ projects' = [id \in readable |-> ParseConfig(files[ConfigPath(id)])]
    /\ mcp' = McpServer(readable)
    /\ ret' = Ret("loadExistingProjects", readable, None, "ok")

\* new ProjectManager() in a new process, loadExistingProjects() run to its
\* end: every directory of projectsDir whose config file is read and parsed
\* (the ids of `readable`) is registered with the fields of the file and the
\* status 'inactive'; an entry whose file cannot be read is logged and
\* skipped; this.containers stays empty
Restart(readable) ==
    /\ readable \subseteq Persisted
    /\ ProcessStarts
    /\ projects' = [id \in readable |->
                       [ParseConfig(files[ConfigPath(id)]) EXCEPT !.status = "inactive"]]
    /\ mcp' = McpServer(readable)
    /\ ret' = Ret("loadExistingProjects", readable, None, "ok")

(***************************************************************************)
(* ReplicClaudeMaxServer: the MCP tools                                    *)
(***************************************************************************)
\* what the MCP tools of the agent sessions leave as it is
notMcp == <<pmVars, tmVars, routerVars, openAtDelete, isClaudeCodeAvailable, probe,
            activeProcesses, sessionStates, bridgeCleanup, scansStarted,
            scansFinished, isShuttingDown, shutdownTimeout, teardown, exitCode,
            terminalCleanup>>

\* verifyClaudeCodeAccess of the Bridge of the MCP tools: 'close' of its probe
McpVerifyClose(code) ==
    /\ mcp.probe = "pending"
    /\ mcp' = [mcp EXCEPT !.probe = IF code = 0 THEN "ready" ELSE "failed",
                          !.isClaudeCodeAvailable = (code = 0)]
    /\ ret' = Ret("mcp:verifyClose", <<>>, None, IF code = 0 THEN "ready" ELSE "error")
    /\ UNCHANGED <<notMcp, procs>>

\* the tool claude_code_start_session: getProjectPath on the ProjectManager
\* of the MCP tools, then startInteractiveSession on their Bridge
McpStartSession(projectId) ==
    /\ Len(procs) < MaxProcs
    /\ IF projectId \notin mcp.projects
       THEN /\ ret' = Ret("mcp:startSession", projectId, None, "NotFound")
            /\ UNCHANGED <<procs, mcp>>
       ELSE IF ~mcp.isClaudeCodeAvailable
            THEN /\ ret' = Ret("mcp:startSession", projectId, None, "AgentUnavailable")
                 /\ UNCHANGED <<procs, mcp>>
            ELSE LET t == TerminateEffect(procs, mcp.activeProcesses,
                                          mcp.sessionStates, projectId)
                     pid == Len(procs) + 1
                 IN  /\ procs' = Append(t.procs, NewProc(projectId, "session", FALSE))
                     /\ mcp' = [mcp EXCEPT
                                   !.activeProcesses = [t.active EXCEPT ![projectId] = pid],
                                   !.sessionStates = [t.sessions EXCEPT ![projectId] = pid],
                                   !.children = @ \cup {pid}]
                     /\ ret' = Ret("mcp:startSession", projectId, pid, "ok")
    /\ UNCHANGED notMcp

\* the tool claude_code_stop_session: terminateSession on the Bridge of the
\* MCP tools
McpStopSession(projectId) ==
    LET t == TerminateEffect(procs, mcp.activeProcesses, mcp.sessionStates, projectId)
    IN  /\ procs' = t.procs
        /\ mcp' = [mcp EXCEPT !.activeProcesses = t.active, !.sessionStates = t.sessions]
        /\ ret' = Ret("mcp:stopSession", projectId, t.pid, t.result)
        /\ UNCHANGED notMcp

\* 'close' of a session child of the Bridge of the MCP tools
McpProcClose(pid, code) ==
    /\ pid \in mcp.children
    /\ Running(pid)
    /\ procs' = [procs EXCEPT ![pid].state = "exited", ![pid].grace = FALSE]
    /\ mcp' = [mcp EXCEPT !.activeProcesses[procs[pid].projectId] = None,
                          !.sessionStates[procs[pid].projectId] = None]
    /\ ret' = Ret("mcp:close", procs[pid].projectId, pid, code)
    /\ UNCHANGED notMcp

\* one process behind its three surfaces: projects are created over HTTP,
\* agent sessions are started and stopped over HTTP or a socket and by the
\* MCP tools, and the process is restarted
NextSurfaces ==
    \/ \E code \in {0, 1} : VerifyClose(code)
    \/ \E code \in {0, 1} : McpVerifyClose(code)
    \/ \E id \in WatchedIds : CreateProject(id)
    \/ \E id \in WatchedIds : CreateMkdir(id, TRUE)
    \/ \E id \in WatchedIds : CreateTemplate(id, TRUE)
    \/ \E id \in WatchedIds : CreateSave1(id, TRUE)
    \/ \E id \in WatchedIds : CreateContainer(id, TRUE)
    \/ \E id \in WatchedIds : CreateStart(id, TRUE)
    \/ \E id \in WatchedIds : CreateSave2(id, TRUE)
    \/ \E readable \in SUBSET WatchedIds : Restart(readable)
    \/ \E p \in WatchedIds : p \in DOMAIN projects /\ StartInteractiveSession(p)
    \/ \E p \in WatchedIds : TerminateSession(p)
    \/ \E pid \in Pids, code \in {0, 1} : pid \notin mcp.children /\ ProcClose(pid, code)
    \/ \E pid \in Pids : GraceTimer(pid)
    \/ \E p \in WatchedIds : McpStartSession(p)
    \/ \E p \in WatchedIds : McpStopSession(p)
    \/ \E pid \in Pids, code \in {0, 1} : McpProcClose(pid, code)

\* the ProjectManager of a process that ends and starts again
NextRestart ==
    \/ \E id \in WatchedIds : CreateProject(id)
    \/ \E id \in WatchedIds, ok \in BOOLEAN : CreateMkdir(id, ok)
    \/ \E id \in WatchedIds, ok \in BOOLEAN : CreateTemplate(id, ok)
    \/ \E id \in WatchedIds, ok \in BOOLEAN : CreateSave1(id, ok)
    \/ \E id \in WatchedIds, ok \in BOOLEAN : CreateContainer(id, ok)
    \/ \E id \in WatchedIds, ok \in BOOLEAN : CreateStart(id, ok)
    \/ \E id \in WatchedIds, ok \in BOOLEAN : CreateSave2(id, ok)
    \/ \E id \in WatchedIds, ok \in BOOLEAN : CreateRollback(id, ok)
    \/ \E id \in WatchedIds : ContainerExit(id)
    \/ \E id \in WatchedIds, ok \in BOOLEAN : GetProjectInfo(id, ok)
    \/ \E id \in WatchedIds, code \in {0, 1}, ok \in BOOLEAN : ExecuteInContainer(id, code, ok)
    \/ Tick
    \/ \E readable \in SUBSET WatchedIds : Restart(readable)

(***************************************************************************)
(* The three managers of one server, each with several keys               *)
(***************************************************************************)
\* every project of ProjectIds has its agent session running and registered,
\* no other child was spawned and no timer is pending
AgentsAtRest ==
    /\ Len(procs) = Cardinality(ProjectIds)
    /\ \A p \in ProjectIds :
          /\ sessionStates[p] # None
          /\ activeProcesses[p] = sessionStates[p]
          /\ Running(sessionStates[p])
    /\ \A pid \in Pids :
          /\ ~procs[pid].grace
          /\ ~procs[pid].timeout
          /\ Running(pid) => sessionStates[procs[pid].projectId] = pid

\* every project of ProjectIds has its one terminal session registered, every
\* shell runs and no timer is pending
TerminalsAtRest ==
    /\ killTimers = EmptyMap
    /\ Len(ptys) = Cardinality(ProjectIds)
    /\ \A p \in ProjectIds : p \in DOMAIN sessionsByProject
    /\ \A n \in 1..Len(ptys) : ptys[n].running /\ ptys[n].isActive

\* no createProject call was made so far
NoProjectYet == \A id \in AllIds : createPc[id] = "idle"

\* the ClaudeCodeBridge, the TerminalManager and the ProjectManager hold no
\* reference to one another, so the managers are exercised one after the
\* other: the Bridge first, the TerminalManager while every project has its
\* agent session, the ProjectManager while every project also has a terminal
NextKeys ==
    \/ ptys = <<>> /\ VerifyClose(0)
    \/ \E p \in ProjectIds : ptys = <<>> /\ StartInteractiveSession(p)
    \/ \E p \in ProjectIds : ptys = <<>> /\ ExecuteCommand(p, FALSE)
    \/ \E pid \in Pids : ptys = <<>> /\ ExecTimeout(pid)
    \/ \E pid \in Pids, code \in {0, 1} : ptys = <<>> /\ ProcClose(pid, code)
    \/ \E pid \in Pids : ptys = <<>> /\ ProcError(pid)
    \/ \E p \in ProjectIds : ptys = <<>> /\ TerminateSession(p)
    \/ \E pid \in Pids : ptys = <<>> /\ GraceTimer(pid)
    \/ \E p \in ProjectIds :
          AgentsAtRest /\ NoProjectYet /\ CreateSession(p, TRUE)
    \/ \E n \in 1..Len(ptys) : NoProjectYet /\ PtyExit(n)
    \/ \E s \in KnownIds : ptys # <<>> /\ NoProjectYet /\ KillSession(s)
    \/ \E t \in DOMAIN killTimers : NoProjectYet /\ KillTimer(t)
    \/ AgentsAtRest /\ TerminalsAtRest /\ NextCreateDelete

Init ==
    /\ InitBridge
    /\ InitProjects
    /\ InitTerminals
    /\ InitRouter
    /\ InitServer
    /\ openAtDelete = [id \in AllIds |-> {}]
    /\ ret = Ret("init", <<>>, None, "ok")

SpecBridge == Init /\ [][NextBridge]_vars

SpecProjects == Init /\ [][NextProjects]_vars

SpecAccess == Init /\ [][NextAccess]_vars

SpecSurfaces == Init /\ [][NextSurfaces]_vars

SpecPool == Init /\ [][NextPool]_vars

SpecIdle == Init /\ [][NextIdle]_vars

SpecKeys == Init /\ [][NextKeys]_vars

SpecRestart == Init /\ [][NextRestart]_vars

SpecFiles == InitFiles /\ [][NextFiles]_vars

SpecServer == Init /\ [][NextServer]_vars

SpecTerminals == Init /\ [][NextTerminals]_vars

SpecPtyOps == Init /\ [][NextPtyOps]_vars

SpecGate == Init /\ [][NextGate]_vars

SpecRouter == Init /\ [][NextRouter]_vars

SpecStream == Init /\ [][NextStream]_vars

SpecReaper == Init /\ [][NextReaper]_vars

SpecShutdown == Init /\ [][NextShutdown]_vars

SpecListeners == Init /\ [][NextListeners]_vars

\* what the event loop guarantees to a gracefulShutdown: its pending 30000
\* ms timer fires, which changes exitCode.  Nothing makes the cleanups settle
ShutdownFairness == WF_exitCode(ShutdownTimeout)

SpecShutdownFair == Init /\ [][NextShutdown]_vars /\ ShutdownFairness

\* what the event loop and the operating system guarantee: a pending timer
\* fires (30000 ms of executeCommand, 1000 ms of terminateSession, 2000 ms of
\* cleanup), and a child that was sent SIGKILL closes.  A child that was sent
\* SIGTERM, or nothing, exits when it chooses to.
BridgeFairness ==
    /\ \A pid \in 1..MaxProcs : WF_vars(pid \in Pids /\ ExecTimeout(pid))
    /\ \A pid \in 1..MaxProcs : WF_vars(pid \in Pids /\ GraceTimer(pid))
    /\ \A pid \in 1..MaxProcs :
          WF_vars(pid \in Pids /\ procs[pid].forced /\ ProcClose(pid, 1))
    /\ WF_vars(BridgeCleanupFinish)

SpecBridgeFair == Init /\ [][NextBridge]_vars /\ BridgeFairness

(***************************************************************************)
(* Claims about the Agent Bridge                                           *)
(***************************************************************************)
\* the interactive agent processes started for projectId that have not exited
LiveSessionProcs(projectId) ==
    {pid \in Pids : /\ procs[pid].kind = "session"
                    /\ procs[pid].projectId = projectId
                    /\ Running(pid)}

\* C1: for every projectId there are never two interactive agent processes
\* started for it that have both not yet exited.
C1_AtMostOneLiveSession ==
    \A p \in ProjectIds : Cardinality(LiveSessionProcs(p)) <= 1

\* pid was spawned by a startInteractiveSession that was not the first one
\* for its project
StartedSecond(pid) ==
    \E q \in 1..(pid - 1) : /\ procs[q].kind = "session"
                             /\ procs[q].projectId = procs[pid].projectId

\* C2: the session registered by a second startInteractiveSession(p) stays
\* registered until terminateSession/startInteractiveSession/cleanup removes
\* it or its own process exits, and the second start leaves the process of
\* the first call with its termination under way.
C2_SecondSessionStays ==
    [][\A p \in ProjectIds :
         LET s == sessionStates[p] IN
         /\ (s # None /\ StartedSecond(s) /\ sessionStates'[p] # s)
               => \/ ret'.op \in {"terminateSession", "startInteractiveSession", "cleanup"}
                  \/ procs'[s].state = "exited"
         /\ (ret'.op = "startInteractiveSession" /\ ret'.id = p /\ ret'.result = "ok"
               /\ Len(procs') > Len(procs))
               => \A q \in LiveSessionProcs(p) : procs'[q].grace \/ procs'[q].killed
      ]_vars

\* C3: every agent process that has not exited is held by the registry under
\* its projectId, where terminateSession and cleanup find it, or has a
\* termination signal scheduled or delivered.
C3_NoLeakedProcess ==
    \A pid \in Pids :
        Running(pid) =>
            \/ activeProcesses[procs[pid].projectId] = pid
            \/ procs[pid].grace
            \/ procs[pid].timeout
            \/ procs[pid].killed

\* the startup probe of the agent binary has succeeded: `claude --version`
\* closed with exit code 0
ProbeSucceeded == probe = "ready"

BridgeCalls == {"executeCommand", "startInteractiveSession"}

TimedOut(pid) == pid \in Pids /\ procs[pid].call = "timeout"

\* pid has exited and the registry does not hold it
Gone(pid) ==
    /\ pid \in Pids
    /\ ~Running(pid)
    /\ activeProcesses[procs[pid].projectId] # pid

\* C16: once the timeout of a non-interactive executeCommand has fired on a
\* process that had not exited, the call has failed with Timeout and the
\* process is eventually not running and not in activeProcesses.
C16_TimedOutProcessGone ==
    \A pid \in 1..MaxProcs : TimedOut(pid) ~> Gone(pid)

\* the promise returned by the executeCommand that spawned pid is not settled
CallPending(pid) == pid \in Pids /\ procs[pid].call = "pending"

\* C17: every executeCommand call is eventually settled (resolved or
\* rejected), whether interactive or not and whatever its process does.
C17_ExecuteCompletes ==
    \A pid \in 1..MaxProcs : CallPending(pid) ~> ~CallPending(pid)

\* C18: sendToSession(projectId, text) leaves the processes and both
\* registries as they were, returns false when no session is registered for
\* projectId, and returns true only when the process it wrote to is the
\* running process of the session registered for projectId.
C18_SendOnlyToSession ==
    [][ret'.op = "sendToSession" =>
          LET session == sessionStates[ret'.id] IN
          /\ UNCHANGED <<procs, activeProcesses, sessionStates>>
          /\ session = None => ret'.result = FALSE
          /\ ret'.result = TRUE =>
                /\ session # None
                /\ ret'.pid = session
                /\ Running(session)]_vars

\* C19: terminateSession(projectId) with a session registered returns true,
\* unregisters the session and leaves its process exited or with the grace
\* timer pending; with no session registered it returns false and changes
\* nothing; and the grace timer leaves the process signalled unless it has
\* exited.
C19_TerminateGracefulThenForceful ==
    [][/\ ret'.op = "terminateSession" =>
            LET session == sessionStates[ret'.id] IN
            IF session # None
            THEN /\ ret'.result = TRUE
                 /\ ret'.pid = session
                 /\ sessionStates'[ret'.id] = None
                 /\ procs'[session].grace \/ procs'[session].state = "exited"
            ELSE /\ ret'.result = FALSE
                 /\ UNCHANGED bridgeVars
       /\ ret'.op = "graceTimer" =>
            procs'[ret'.pid].killed \/ procs'[ret'.pid].state = "exited"]_vars

(***************************************************************************)
(* Claims about the Event Router                                           *)
(***************************************************************************)
\* no client has received the same message twice: a message is the number of
\* the upstream event and the name it was sent under
AtMostOnce ==
    \A c \in Conns : \A i, j \in 1..Len(inbox[c]) :
        inbox[c][i] = inbox[c][j] => i = j

C21_OutputInOrder ==
    \A c \in Conns : \A i, j \in 1..Len(inbox[c]) :
        (i < j /\ inbox[c][i][2] = "terminal_output" /\ inbox[c][j][2] = "terminal_output")
            => inbox[c][i][1] < inbox[c][j][1]

\* a socket has received two chunks of one session
C21_Witness ==
    /\ ret.op = "relay"
    /\ \E c \in Conns :
          /\ ret.id \in rooms[c]
          /\ Len(inbox[c]) >= 2
          /\ \A i \in 1..Len(inbox[c]) : inbox[c][i][2] = "terminal_output"

(***************************************************************************)
(* Claims about the Lifecycle Manager                                      *)
(***************************************************************************)
\* nothing of the project's storage exists
NoStorage(id) ==
    /\ \A d \in dirs : ~Inside(ProjectPath(id), d)
    /\ \A f \in DOMAIN files : ~Inside(ProjectPath(id), f)

C6_FailedCreateLeavesNothing ==
    (ret.op = "createProject" /\ ret.result # "ok") =>
        /\ ret.id \notin DOMAIN projects
        /\ ret.id \notin DOMAIN containers
        /\ docker[ret.id] = "absent"

\* C7: a deleteProject call that has ended on a registered project whose
\* container the runtime no longer has did remove the directory and the
\* in-memory state of the project.
C7_DeleteWithContainerGone ==
    (/\ ret.op = "deleteProject"
     /\ ret.result # "NotFound"
     /\ docker[ret.id] = "absent") =>
        /\ NoStorage(ret.id)
        /\ ret.id \notin DOMAIN projects
        /\ ret.id \notin DOMAIN containers

\* C8: deleteProject on a project that was deleted before succeeds.
C8_DeleteDeletedSucceeds ==
    (/\ ret.op = "deleteProject"
     /\ events[<<"project-deleted", ret.id>>] > 0
     /\ ret.id \notin DOMAIN projects) =>
        ret.result = "ok"

FullyPresent(id) ==
    /\ id \in DOMAIN projects
    /\ id \in DOMAIN containers
    /\ docker[id] = "running"
    /\ ProjectPath(id) \in dirs

FullyGone(id) ==
    /\ id \notin DOMAIN projects
    /\ id \notin DOMAIN containers
    /\ docker[id] = "absent"
    /\ NoStorage(id)

\* C9: after a deleteProject call on a project that was created, whether it
\* succeeded or failed after the container was stopped, the project is fully
\* present or fully gone.
C9_DeleteAllOrNothing ==
    (/\ ret.op = "deleteProject"
     /\ ret.result \in {"ok", "remove:NoSuchContainer", "remove:Failed"}
     /\ createPc[ret.id] = "done") =>
        FullyPresent(ret.id) \/ FullyGone(ret.id)

(***************************************************************************)
(* Claims about file access                                                *)
(***************************************************************************)
\* C4: every path a file operation touches lies inside the root of its
\* project, and an operation that fails AccessDenied touches nothing.
C4_PathConfinement ==
    ret.op \in {"readFile", "writeFile", "listFiles"} =>
        /\ \A p \in io : Inside(ProjectPath(ret.id), p)
        /\ ret.result = "AccessDenied" => io = {}

(***************************************************************************)
(* Claims about project teardown and terminals                             *)
(***************************************************************************)
\* C10: once a deleteProject(id) call has completed, none of the terminal
\* sessions that were open for the project when it was called is active any
\* more, and the project directory is gone.
C10_DeleteEndsTerminals ==
    (ret.op = "deleteProject" /\ ret.result = "ok") =>
        /\ openAtDelete[ret.id] \cap OpenTerminals(ret.id) = {}
        /\ NoStorage(ret.id)

(***************************************************************************)
(* Claims about the TerminalManager                                        *)
(***************************************************************************)
\* the n-th session object is in the registry
Registered(n) == \E s \in DOMAIN sessions : sessions[s] = n

\* sessionId names a session that was killed and awaits its removal, or one
\* that was removed from the registry
DeadSession(sessionId) ==
    /\ \E n \in 1..Len(ptys) : ptys[n].sessionId = sessionId
    /\ \/ sessionId \notin DOMAIN sessions
       \/ ~ptys[sessions[sessionId]].isActive

\* C11: killSession on a session that is already dead returns true and
\* changes nothing: no signal, no timer, no session-killed event, the
\* registry as it was.
C11_KillDeadSessionNoEffect ==
    [][\A s \in SessionIds :
         (DeadSession(s) /\ ret'.op = "killSession" /\ ret'.id = s) =>
            /\ ret'.result = TRUE
            /\ ret'.pid = None
            /\ ret'.value = <<>>
            /\ UNCHANGED tmVars
      ]_vars

\* the n-th session was killed: pty.kill was called on it
Killed(n) == ptys[n].signalled

\* C12: killSession on a registered session returns with the session inactive
\* and still registered, and a killed session leaves the registry only in the
\* step that reports the exit of its own process or in the step of the grace
\* timer of its kill.
C12_KilledLeavesOnExitOrGrace ==
    /\ [](ret.op = "killSession" /\ ret.result = TRUE =>
            ~ptys[ret.pid].isActive /\ Registered(ret.pid))
    /\ [][\A n \in 1..Len(ptys) :
            (Killed(n) /\ Registered(n) /\ ~Registered(n)') =>
                \/ ret'.op = "terminal-exit" /\ ret'.pid = n
                \/ ret'.op = "killTimer" /\ ret'.pid = n
         ]_vars

\* C13: when the grace timer of a kill has removed a killed session from the
\* registry, the shell process of that session is not running any more.
C13_KilledProcessGoneAfterGrace ==
    (ret.op = "killTimer" /\ ret.result = TRUE /\ Killed(ret.pid)) =>
        ~ptys[ret.pid].running

\* the operations that write to the pty of a session
PtyOps == {"writeToSession", "resizeSession", "interruptSession", "clearSession"}

\* sessionId is registered and its session is active
ActiveSession(sessionId) ==
    sessionId \in DOMAIN sessions /\ ptys[sessions[sessionId]].isActive

C22_DisconnectRemovesOnlyConnection ==
    [][ret'.op \in {"disconnect", "cleanupIdleSockets"} =>
          LET gone == DOMAIN socketSessions \ DOMAIN socketSessions' IN
          /\ UNCHANGED <<bridgeVars, pmVars, tmVars>>
          /\ ret'.op = "disconnect" => gone = {ret'.id}
          /\ ret'.op = "cleanupIdleSockets" => gone = IdleSockets(MaxIdleTime)
          /\ DOMAIN socketSessions' = DOMAIN socketSessions \ gone
          /\ \A c \in Conns :
                IF c \in gone
                THEN rooms'[c] = {}
                ELSE /\ rooms'[c] = rooms[c]
                     /\ c \in DOMAIN socketSessions =>
                            socketSessions'[c] = socketSessions[c]]_vars

\* the idle cleanup has disconnected a socket while a terminal session and
\* an agent session are live
C22_Witness ==
    /\ ret.op = "cleanupIdleSockets"
    /\ ret.id # {}
    /\ \E p \in ProjectIds : sessionStates[p] # None /\ Running(sessionStates[p])
    /\ \E s \in DOMAIN sessions : ptys[sessions[s]].isActive

\* C23: a scan of the periodic cleanup evicts every idle resource of the
\* three kinds: every terminal session that was active and idle is no longer
\* active, every idle socket is disconnected, and every idle agent session
\* is no longer registered.
C23_ScanEvictsIdle ==
    [][ret'.op = "performPeriodicCleanup" =>
          /\ \A s \in IdleSessions(MaxIdleTime) : ~ptys'[sessions[s]].isActive
          /\ \A c \in IdleSockets(MaxIdleTime) : c \notin DOMAIN socketSessions'
          /\ \A p \in IdleAgents(MaxIdleTime) : sessionStates'[p] = None]_vars

\* C24: two scans of the periodic cleanup never overlap: at most one call of
\* performPeriodicCleanup is under way at any time, and when a call begins
\* every call begun before has returned.
C24_ScansNeverOverlap ==
    /\ [](scansStarted - scansFinished \in {0, 1})
    /\ [][scansStarted' # scansStarted => scansFinished = scansStarted]_vars

\* the second scan has run, after the clock advanced past the first
C24_Witness ==
    /\ ret.op = "performPeriodicCleanup"
    /\ scansStarted = 2
    /\ scansFinished = 2
    /\ now > 0

\* C25: an uncaught exception or an unhandled rejection starts the graceful
\* shutdown, and the process never exits without the teardown of the
\* sessions and containers having been attempted.
C25_FatalErrorShutsDown ==
    /\ [](exitCode # NoExit => teardown # "none")
    /\ [][(\/ ret'.op = "uncaughtException"
           \/ ret'.op = "gracefulShutdown" /\ ret'.id = <<"unhandledRejection">>)
              => isShuttingDown' /\ teardown' # "none"]_vars

\* C26: when a listener throws while a manager emits an event, every
\* listener of the event is still called, the operation that emitted it does
\* not go to its failure path, and the process does not exit.
C26_ListenerFailureContained ==
    [][(ret'.op = "emit" /\ ret'.result = "threw") =>
          /\ ret'.value = Listeners
          /\ \A id \in AllIds : createPc'[id] = "rollback" => createPc[id] = "rollback"
          /\ exitCode' = NoExit]_vars

\* C27: 'project-created' is emitted exactly when a createProject call
\* returns the id and 'project-deleted' exactly when a deleteProject call
\* returns: once for each call that succeeds, and never by a step of a call
\* that fails.
C27_LifecycleEventPerSuccess ==
    [][\A id \in AllIds :
          /\ events'[<<"project-created", id>>] =
                events[<<"project-created", id>>] +
                  (IF ret'.op = "createProject" /\ ret'.id = id /\ ret'.result = "ok"
                   THEN 1 ELSE 0)
          /\ events'[<<"project-deleted", id>>] =
                events[<<"project-deleted", id>>] +
                  (IF ret'.op = "deleteProject" /\ ret'.id = id /\ ret'.result = "ok"
                   THEN 1 ELSE 0)]_vars

\* C28: when createProject returns the id, the project is registered with
\* status active and a container handle; a getProjectInfo that returns shows
\* the registered project; no registered project has status creating, and
\* the status of a registered project does not change.
C28_CreatedProjectIsActive ==
    /\ [](\A id \in DOMAIN projects : projects[id].status # "creating")
    /\ [][/\ (ret'.op = "createProject" /\ ret'.result = "ok") =>
              /\ ret'.id \in DOMAIN projects'
              /\ projects'[ret'.id].status = "active"
              /\ projects'[ret'.id].containerId \in AllIds
          /\ (ret'.op = "getProjectInfo" /\ ret'.result \notin {"NotFound", "failed"}) =>
              /\ ret'.value = projects'[ret'.id]
              /\ ret'.result = projects'[ret'.id].status
          /\ ret'.op = "listProjects" =>
              \A i \in DOMAIN ret'.value : ret'.value[i].status # "creating"
          /\ \A id \in DOMAIN projects \cap DOMAIN projects' :
                 projects'[id].status = projects[id].status]_vars

\* getProjectInfo has returned the project of a createProject that succeeded
C28_Witness ==
    /\ ret.op = "getProjectInfo"
    /\ ret.result = "active"
    /\ createPc[ret.id] = "done"
    /\ ret.value.containerId = ret.id

\* C29: after getProjectInfo(id) on a registered project its lastAccessed is
\* the time of the call, after listProjects() the lastAccessed of every
\* project listed is the time of the call, and getProjectInfo on an id that
\* is not registered fails NotFound and leaves every project as it was.
C29_GetAndListRefreshLastAccessed ==
    [][/\ ret'.op = "getProjectInfo" =>
            IF ret'.id \in DOMAIN projects
            THEN /\ ret'.result # "NotFound"
                 /\ projects'[ret'.id].lastAccessed = now
            ELSE /\ ret'.result = "NotFound"
                 /\ UNCHANGED projects
       /\ ret'.op = "listProjects" =>
            /\ \A id \in DOMAIN projects : projects'[id].lastAccessed = now
            /\ \A i \in DOMAIN ret'.value : ret'.value[i].lastAccessed = now]_vars

\* C30: executeInContainer on a project without a registered container fails
\* NotFound and makes no call to the runtime; it returns the output only of
\* a command that exited with code zero, and a command that exited with
\* another code makes it fail with ExecError.
C30_ExecReturnsOnZeroExit ==
    [][ret'.op = "executeInContainer" =>
          /\ ret'.id \notin DOMAIN containers =>
                ret'.result = "NotFound" /\ ret'.value.calls = <<>>
          /\ ret'.result = "ok" => ret'.value.code = 0
          /\ ret'.value.code \notin {None, 0} => ret'.result = "ExecError"]_vars

\* C31: a readFile(id, p) that directly follows a writeFile(id, p, c) that
\* succeeded returns exactly c.
C31_WriteReadRoundTrip ==
    [][(/\ ret.op = "writeFile" /\ ret.result = "ok"
        /\ ret'.op = "readFile"
        /\ ret'.id = ret.id /\ ret'.value.path = ret.value.path) =>
            /\ ret'.result = "ok"
            /\ ret'.value.content = ret.value.content]_vars

\* the projects registered by loadExistingProjects: registered, while the
\* createProject call that made them belongs to an earlier process
Reloaded == {id \in DOMAIN projects : createPc[id] = "lost"}

\* C32: after a restart every project whose config file could be read is
\* registered again, with status inactive whatever status was persisted and
\* with no container registered; an executeInContainer on a reloaded project
\* fails NotFound without a call to the runtime.
C32_ReloadedProjectsInactive ==
    /\ [](\A id \in Reloaded :
             projects[id].status = "inactive" /\ id \notin DOMAIN containers)
    /\ [][/\ ret'.op = "loadExistingProjects" =>
               /\ ret'.id \subseteq Reloaded'
               /\ containers' = EmptyMap
          /\ (ret'.op = "executeInContainer" /\ ret'.id \in Reloaded) =>
               ret'.result = "NotFound" /\ ret'.value.calls = <<>>]_vars

\* an executeInContainer fails NotFound on a project that was reloaded from
\* a config file holding the status active and a container id, while its
\* container still runs
C32_Witness ==
    /\ ret.op = "executeInContainer"
    /\ ret.result = "NotFound"
    /\ ret.id \in Reloaded
    /\ ret.id \in Persisted
    /\ ParseConfig(files[ConfigPath(ret.id)]).status = "active"
    /\ projects[ret.id].containerId \in AllIds
    /\ docker[ret.id] = "running"

\* the entry of key k in the map m, None when there is none
Entry(m, k) == IF k \in DOMAIN m THEN <<m[k]>> ELSE None

\* the step leaves every terminal session but the one of id s as it is: its
\* registry entry, its place in the index, its pty, flag and lastActivity
OtherTerminalsKept(s) ==
    /\ \A n \in 1..Len(ptys) : ptys[n].sessionId # s => ptys'[n] = ptys[n]
    /\ \A t \in (DOMAIN sessions \cup DOMAIN sessions') \ {s} :
          t \in DOMAIN sessions /\ t \in DOMAIN sessions' /\ sessions'[t] = sessions[t]
    /\ \A q \in ProjectIds :
          (IF q \in DOMAIN sessionsByProject' THEN sessionsByProject'[q] ELSE {}) \ {s}
              = (IF q \in DOMAIN sessionsByProject THEN sessionsByProject[q] ELSE {}) \ {s}

\* the step leaves the agent session and the processes of every project
\* but p as they are
OtherAgentsKept(p) ==
    /\ \A q \in ProjectIds \ {p} :
          activeProcesses'[q] = activeProcesses[q] /\ sessionStates'[q] = sessionStates[q]
    /\ \A pid \in Pids : procs[pid].projectId # p => procs'[pid] = procs[pid]

\* the step leaves every project but id as it is, with its container
OtherProjectsKept(id) ==
    \A q \in AllIds \ {id} :
        /\ Entry(projects', q) = Entry(projects, q)
        /\ Entry(containers', q) = Entry(containers, q)
        /\ docker'[q] = docker[q]

C34_IdleCleanupKillsExactlyIdle ==
    [][ret'.op = "cleanupIdleSessions" =>
          LET idle == {n \in 1..Len(ptys) :
                          /\ ptys[n].sessionId \in DOMAIN sessions
                          /\ sessions[ptys[n].sessionId] = n
                          /\ ptys[n].isActive
                          /\ now - ptys[n].lastActivity > ret'.id}
          IN  /\ \A n \in idle : ptys'[n].signalled /\ ~ptys'[n].isActive
              /\ \A n \in (1..Len(ptys)) \ idle : ptys'[n] = ptys[n]
              /\ UNCHANGED <<sessions, sessionsByProject>>
              /\ ret'.value = Cardinality({n \in 1..Len(ptys) :
                                              ptys'[n].signalled /\ ~ptys[n].signalled})
              /\ ret'.value = Cardinality(idle)]_vars

\* a scan has killed one idle session and left alone an active session
\* that was used within the threshold and a session killed before
C34_Witness ==
    /\ ret.op = "cleanupIdleSessions"
    /\ ret.value = 1
    /\ \E n \in 1..Len(ptys) :
          /\ ptys[n].isActive
          /\ ptys[n].sessionId \in DOMAIN sessions
          /\ now - ptys[n].lastActivity <= ret.id
    /\ \E n \in 1..Len(ptys) : now - ptys[n].lastActivity > ret.id

\* the step is taken by an executeCommand: its start, or the 'close',
\* 'error' or timeout of its child
ExecuteStep ==
    \/ ret'.op = "executeCommand" /\ ret'.result = "pending"
    \/ ret'.op \in {"close", "error", "execTimeout"} /\ procs[ret'.pid].kind = "exec"

C37_RegistriesConsistent ==
    /\ \A p \in DOMAIN sessionsByProject : sessionsByProject[p] # {}
    /\ \A p \in ProjectIds :
          \A s \in DOMAIN sessions \cup UNION {sessionsByProject[q] : q \in DOMAIN sessionsByProject} :
              (p \in DOMAIN sessionsByProject /\ s \in sessionsByProject[p])
                  <=> (s \in DOMAIN sessions /\ ptys[sessions[s]].projectId = p)

\* the timer of a killSession has taken a session out of the registry and
\* out of the index set of its project, where another session remains
C37_Witness ==
    /\ ret.op = "killTimer"
    /\ ret.result = TRUE
    /\ ret.id \notin DOMAIN sessions
    /\ \E p \in DOMAIN sessionsByProject :
          /\ ptys[ret.pid].projectId = p
          /\ ret.id \notin sessionsByProject[p]
          /\ \E s \in sessionsByProject[p] : ptys[sessions[s]].isActive

\* a registry that some surface acts on holds an agent session of projectId
AgentRegistered(projectId) ==
    \/ sessionStates[projectId] # None /\ activeProcesses[projectId] # None
    \/ mcp.sessionStates[projectId] # None /\ mcp.activeProcesses[projectId] # None

\* C38: HTTP routes, socket events and MCP tools act on the same registries:
\* stopping the agent session of a project over any surface succeeds exactly
\* when a session of the project is registered, whichever surface started it,
\* and leaves none registered; and the MCP tools know a project exactly when
\* the HTTP routes and the socket events do.
C38_SurfacesShareRegistries ==
    /\ [](mcp.projects = DOMAIN projects)
    /\ [][\A p \in ProjectIds :
              (ret'.op \in {"terminateSession", "mcp:stopSession"} /\ ret'.id = p) =>
                  /\ ret'.result = AgentRegistered(p)
                  /\ ~AgentRegistered(p)']_vars

\* C39: the teardown of a graceful shutdown is started at most once: a
\* gracefulShutdown call made while one is in progress, by a signal or a
\* fatal error, returns without arming a timer or calling a cleanup, and the
\* flag is never reset; and once a shutdown has begun the process exits,
\* also when the cleanups never settle.
C39_ShutdownOnceAndEnds ==
    /\ [][/\ isShuttingDown => isShuttingDown'
          /\ (ret'.op = "gracefulShutdown" /\ isShuttingDown /\ teardown' = "pending") =>
                /\ ret'.result = FALSE
                /\ UNCHANGED <<teardown, shutdownTimeout>>
          /\ (teardown # "pending" /\ teardown' = "pending") =>
                ~isShuttingDown /\ teardown = "none"]_vars
    /\ isShuttingDown ~> (exitCode # NoExit)

\* the 30000 ms timer has ended the process while the cleanups of the one
\* teardown were still pending
C39_Witness ==
    /\ ret.op = "shutdownTimeout"
    /\ isShuttingDown
    /\ teardown = "pending"
    /\ exitCode = 1

====
